---- MODULE Spec2Model ----
(***************************************************************************)
(* A model of the DataProto schema compiler front end: the query compiler  *)
(* (codegen.ExprToSQL, codegen.ExprToSQLWithParams), the lexer             *)
(* (lexer.Lexer), the recursive-descent parser (parser.Parser) and the     *)
(* semantic checker (checker.Checker).                                     *)
(*                                                                         *)
(* Text (Go strings) is a sequence of one-character strings; the byte 0x00 *)
(* is written "NUL".  Every Go function is an operator computed the way    *)
(* the code computes it; a method with a receiver takes the receiver's     *)
(* record and returns the updated record.                                  *)
(***************************************************************************)
EXTENDS Integers, Sequences, FiniteSets, TLC

VARIABLES
    query,      \* codegen: the QueryDecl being compiled ([Params, Where])
    called,     \* codegen: which of ExprToSQL / ExprToSQLWithParams have run
    plain,      \* codegen: result of ExprToSQL(query.Where)
    sql,        \* codegen: SQL text returned by ExprToSQLWithParams
    params,     \* codegen: parameter list returned by ExprToSQLWithParams
    calls,      \* codegen: the calls of ExprToSQLWithParams so far, in order
    lexer,      \* lexer: the Lexer
    emitted,    \* lexer: the calls of NextToken so far, [tok, from, to]
    source,     \* parser: the words of the source text given to the parser
    parser,     \* parser: the Parser
    file,       \* parser: the File that ParseFile is building
    parsed,     \* parser: <<e>> once parseExpression has returned e
    tokenized,  \* lexer: <<r>> once Tokenize has returned r on the source text
    checker,    \* checker: the Checker
    checked,    \* checker: what the calls of Check so far have returned
    rendered,   \* checker: <<t>> once the diagnostics have been rendered as t
    runtime,    \* runtime: the fields of the DataProtoRuntime
    connections,\* runtime: the connections created so far, TRUE when closed
    threads,    \* runtime: the call each thread is in, and where in it
    returned    \* runtime: the calls that have returned or thrown, in order

cgVars == <<query, called, plain, sql, params, calls>>

lexVars == <<lexer, emitted>>

parseVars == <<source, parser, file, parsed>>

tokVars == <<tokenized>>

checkVars == <<checker, checked, rendered>>

rtVars == <<runtime, connections, threads, returned>>

vars ==
    <<query, called, plain, sql, params, calls, lexer, emitted, source, parser, file, parsed,
      tokenized, checker, checked, rendered, runtime, connections, threads, returned>>

(***************************************************************************)
(* Bounds of the model.                                                    *)
(***************************************************************************)
MaxNodes == 3       \* expression trees of the query compiler: number of nodes
MaxStrLen == 2      \* length of the string literals of those trees
MaxInputLen == 4    \* lexer: length of the input strings
MaxCallsAtEnd == 2  \* lexer: calls of NextToken beyond one per input byte
MaxOps == 3         \* expression parser: operators of an expression
MaxDecls == 2       \* parser: declarations of a valid schema
MaxPrefixLen == 2   \* lexer: characters before the quote of an open string
MaxStrItems == 3    \* lexer: characters and escapes of an open string
MaxFields == 3      \* checker: fields of an entity
MaxSameDecls == 3   \* checker: declarations of a schema that share names
MaxChecks == 2      \* checker: calls of Check on one file
MaxCalls == 3       \* query compiler: calls of ExprToSQLWithParams in a row

(***************************************************************************)
(* Characters.                                                             *)
(***************************************************************************)
LowerChars ==
    {"a", "b", "c", "d", "e", "f", "g", "h", "i", "j", "k", "l", "m",
     "n", "o", "p", "q", "r", "s", "t", "u", "v", "w", "x", "y", "z"}

UpperChars ==
    {"A", "B", "C", "D", "E", "F", "G", "H", "I", "J", "K", "L", "M",
     "N", "O", "P", "Q", "R", "S", "T", "U", "V", "W", "X", "Y", "Z"}

DigitChars == <<"0", "1", "2", "3", "4", "5", "6", "7", "8", "9">>

Digits == {DigitChars[i] : i \in 1..10}

\* the value of a decimal digit character
DigitValue(c) == (CHOOSE i \in 1..10 : DigitChars[i] = c) - 1

(***************************************************************************)
(* Library functions used by the code.                                     *)
(***************************************************************************)
\* strings.ReplaceAll(v, "'", "''")
RECURSIVE ReplaceAllQuotes(_)
ReplaceAllQuotes(v) ==
    IF v = <<>> THEN <<>>
    ELSE (IF Head(v) = "'" THEN <<"'", "'">> ELSE <<Head(v)>>)
         \o ReplaceAllQuotes(Tail(v))

\* the decimal digits of a natural number
RECURSIVE DigitsOf(_)
DigitsOf(n) ==
    IF n < 10 THEN <<DigitChars[n + 1]>>
    ELSE DigitsOf(n \div 10) \o <<DigitChars[(n % 10) + 1]>>

\* fmt.Sprintf("%d", v)
FormatInt(v) == IF v < 0 THEN <<"-">> \o DigitsOf(-v) ELSE DigitsOf(v)

\* fmt.Sprintf("%f", v) for a float64 given in millionths: six decimals
FormatFloat(u) ==
    LET a == IF u < 0 THEN -u ELSE u
        frac == DigitsOf(a % 1000000)
        pad == [i \in 1..(6 - Len(frac)) |-> "0"]
    IN (IF u < 0 THEN <<"-">> ELSE <<>>)
       \o DigitsOf(a \div 1000000) \o <<".">> \o pad \o frac

\* strings.Join(parts, sep)
RECURSIVE Join(_, _)
Join(parts, sep) ==
    IF parts = <<>> THEN <<>>
    ELSE IF Len(parts) = 1 THEN parts[1]
    ELSE parts[1] \o sep \o Join(Tail(parts), sep)

(***************************************************************************)
(* The expression variants of parser/ast.go.                               *)
(***************************************************************************)
\* lexer.Position{Line, Column}; the zero value is the position of a node
\* that was built directly and not by the parser
Position(line, column) == [Line |-> line, Column |-> column]
NoPos == Position(0, 0)

BinaryExprAt(pos, op, l, r) ==
    [kind |-> "BinaryExpr", Position |-> pos, Op |-> op, Left |-> l, Right |-> r]
UnaryExprAt(pos, op, x) ==
    [kind |-> "UnaryExpr", Position |-> pos, Op |-> op, Operand |-> x]
IsNullExprAt(pos, x, not) ==
    [kind |-> "IsNullExpr", Position |-> pos, Operand |-> x, Not |-> not]
IdentExprAt(pos, name) == [kind |-> "IdentExpr", Position |-> pos, Name |-> name]
CallExprAt(pos, name, args) ==
    [kind |-> "CallExpr", Position |-> pos, Name |-> name, Args |-> args]
ParenExprAt(pos, x) == [kind |-> "ParenExpr", Position |-> pos, Inner |-> x]
\* LiteralExpr.Value is an interface{}: vtype is its dynamic type
StringLitAt(pos, s) ==
    [kind |-> "LiteralExpr", Position |-> pos, vtype |-> "string", str |-> s]
IntLitAt(pos, n) ==
    [kind |-> "LiteralExpr", Position |-> pos, vtype |-> "int64", int |-> n]
FloatLitAt(pos, u) ==
    [kind |-> "LiteralExpr", Position |-> pos, vtype |-> "float64", micro |-> u]
BoolLitAt(pos, b) ==
    [kind |-> "LiteralExpr", Position |-> pos, vtype |-> "bool", bool |-> b]
NilLitAt(pos) == [kind |-> "LiteralExpr", Position |-> pos, vtype |-> "nil"]

\* the same nodes built directly
BinaryExpr(op, l, r) == BinaryExprAt(NoPos, op, l, r)
UnaryExpr(op, x) == UnaryExprAt(NoPos, op, x)
IsNullExpr(x, not) == IsNullExprAt(NoPos, x, not)
IdentExpr(name) == IdentExprAt(NoPos, name)
CallExpr(name, args) == CallExprAt(NoPos, name, args)
ParenExpr(x) == ParenExprAt(NoPos, x)
StringLit(s) == StringLitAt(NoPos, s)
IntLit(n) == IntLitAt(NoPos, n)
FloatLit(u) == FloatLitAt(NoPos, u)
BoolLit(b) == BoolLitAt(NoPos, b)
NilLit == NilLitAt(NoPos)

(***************************************************************************)
(* codegen.go: ExprToSQL.                                                  *)
(***************************************************************************)
\* the LiteralExpr case of ExprToSQL
ExprToSQLLiteral(e) ==
    CASE e.vtype = "string" -> <<"'">> \o ReplaceAllQuotes(e.str) \o <<"'">>
      [] e.vtype = "int64" -> FormatInt(e.int)
      [] e.vtype = "float64" -> FormatFloat(e.micro)
      [] e.vtype = "bool" -> IF e.bool THEN <<"1">> ELSE <<"0">>
      [] OTHER -> <<"N", "U", "L", "L">>

RECURSIVE ExprToSQL(_)
ExprToSQL(e) ==
    CASE e.kind = "BinaryExpr" ->
            ExprToSQL(e.Left) \o <<" ">> \o e.Op \o <<" ">> \o ExprToSQL(e.Right)
      [] e.kind = "UnaryExpr" -> e.Op \o <<" ">> \o ExprToSQL(e.Operand)
      [] e.kind = "IsNullExpr" ->
            IF e.Not
            THEN ExprToSQL(e.Operand) \o <<" ", "I", "S", " ", "N", "O", "T", " ", "N", "U", "L", "L">>
            ELSE ExprToSQL(e.Operand) \o <<" ", "I", "S", " ", "N", "U", "L", "L">>
      [] e.kind = "IdentExpr" -> e.Name
      [] e.kind = "LiteralExpr" -> ExprToSQLLiteral(e)
      [] e.kind = "CallExpr" ->
            e.Name \o <<"(">>
            \o Join([i \in 1..Len(e.Args) |-> ExprToSQL(e.Args[i])], <<",", " ">>)
            \o <<")">>
      [] e.kind = "ParenExpr" -> <<"(">> \o ExprToSQL(e.Inner) \o <<")">>
      [] OTHER -> <<>>

(***************************************************************************)
(* codegen.go: ExprToSQLWithParams.  exprToSQLWithParamsInternal appends   *)
(* to *params as it goes: the operator takes the list so far and returns   *)
(* the text with the list after the call.                                  *)
(***************************************************************************)
\* unicode.IsLower(rune(s[0])) on a non-empty string
isLowerCamelCase(s) ==
    IF Len(s) = 0 THEN FALSE ELSE s[1] \in LowerChars

\* the IdentExpr case
IdentToSQLWithParams(e, ps) ==
    IF isLowerCamelCase(e.Name)
    THEN [sql |-> <<"?">>, params |-> Append(ps, e.Name)]
    ELSE [sql |-> e.Name, params |-> ps]

\* mutant of LiteralToSQLWithParams: the string is quoted without ReplaceAll
LiteralToSQLWithParams_NoEscape(e) ==
    CASE e.vtype = "string" -> <<"'">> \o e.str \o <<"'">>
      [] e.vtype = "int64" -> FormatInt(e.int)
      [] e.vtype = "float64" -> FormatFloat(e.micro)
      [] e.vtype = "bool" -> IF e.bool THEN <<"1">> ELSE <<"0">>
      [] OTHER -> <<"N", "U", "L", "L">>

\* the LiteralExpr case
LiteralToSQLWithParams(e) ==
    CASE e.vtype = "string" -> <<"'">> \o ReplaceAllQuotes(e.str) \o <<"'">>
      [] e.vtype = "int64" -> FormatInt(e.int)
      [] e.vtype = "float64" -> FormatFloat(e.micro)
      [] e.vtype = "bool" -> IF e.bool THEN <<"1">> ELSE <<"0">>
      [] OTHER -> <<"N", "U", "L", "L">>

NowSQL ==
    <<"(", "s", "t", "r", "f", "t", "i", "m", "e", "(", "'", "%", "s", "'",
      ",", " ", "'", "n", "o", "w", "'", ")", " ", "*", " ", "1", "0", "0", "0", ")">>

\* mutant of CallToSQLWithParams: NOW is passed through like any other call
CallToSQLWithParams_PassThrough(name, args) ==
    name \o <<"(">> \o Join(args, <<",", " ">>) \o <<")">>

\* the CallExpr case after its arguments are lowered
CallToSQLWithParams(name, args) ==
    IF name = <<"N", "O", "W">> THEN NowSQL
    ELSE name \o <<"(">> \o Join(args, <<",", " ">>) \o <<")">>

RECURSIVE exprToSQLWithParamsInternal(_, _)
RECURSIVE lowerArgs(_, _, _)

\* the loop over e.Args: the lowered arguments so far and the list so far
lowerArgs(args, done, ps) ==
    IF args = <<>> THEN [args |-> done, params |-> ps]
    ELSE LET a == exprToSQLWithParamsInternal(Head(args), ps)
         IN lowerArgs(Tail(args), Append(done, a.sql), a.params)

exprToSQLWithParamsInternal(e, ps) ==
    CASE e.kind = "BinaryExpr" ->
            LET l == exprToSQLWithParamsInternal(e.Left, ps)
                r == exprToSQLWithParamsInternal(e.Right, l.params)
            IN [sql |-> l.sql \o <<" ">> \o e.Op \o <<" ">> \o r.sql,
                params |-> r.params]
      [] e.kind = "UnaryExpr" ->
            LET x == exprToSQLWithParamsInternal(e.Operand, ps)
            IN [sql |-> e.Op \o <<" ">> \o x.sql, params |-> x.params]
      [] e.kind = "IsNullExpr" ->
            LET x == exprToSQLWithParamsInternal(e.Operand, ps)
            IN [sql |-> IF e.Not
                        THEN x.sql \o <<" ", "I", "S", " ", "N", "O", "T", " ", "N", "U", "L", "L">>
                        ELSE x.sql \o <<" ", "I", "S", " ", "N", "U", "L", "L">>,
                params |-> x.params]
      [] e.kind = "IdentExpr" -> IdentToSQLWithParams(e, ps)
      [] e.kind = "LiteralExpr" ->
            [sql |-> LiteralToSQLWithParams(e), params |-> ps]
      [] e.kind = "CallExpr" ->
            LET a == lowerArgs(e.Args, <<>>, ps)
            IN [sql |-> CallToSQLWithParams(e.Name, a.args), params |-> a.params]
      [] e.kind = "ParenExpr" ->
            LET x == exprToSQLWithParamsInternal(e.Inner, ps)
            IN [sql |-> <<"(">> \o x.sql \o <<")">>, params |-> x.params]
      [] OTHER -> [sql |-> <<>>, params |-> ps]

\* var params []string; sql := exprToSQLWithParamsInternal(expr, prefix, &params)
ExprToSQLWithParams(e) == exprToSQLWithParamsInternal(e, <<>>)

(***************************************************************************)
(* lexer.go: the Lexer.  input is the source as a sequence of bytes; pos,   *)
(* readPos and lineStart are byte offsets from 0, so the byte at offset k  *)
(* is input[k + 1].  The rune 0 (ch at end of input, and the byte 0x00) is *)
(* "NUL".  The two bytes "0xC3" "0xA9" are the UTF-8 encoding of the       *)
(* letter U+00E9; a byte that starts no valid encoding decodes to RuneError.  *)
(***************************************************************************)
RuneError == "U+FFFD"

\* utf8.DecodeRuneInString(input[off:]) for off < len(input)
DecodeRune(input, off) ==
    LET b == input[off + 1]
    IN IF b = "0xC3" /\ off + 2 <= Len(input) /\ input[off + 2] = "0xA9"
       THEN [r |-> "U+00E9", width |-> 2]
       ELSE IF b \in {"0xC3", "0xA9"}
       THEN [r |-> RuneError, width |-> 1]
       ELSE [r |-> b, width |-> 1]

\* the UTF-8 bytes strings.Builder.WriteRune appends
EncodeRune(r) ==
    IF r = "U+00E9" THEN <<"0xC3", "0xA9">>
    ELSE IF r = RuneError THEN <<"0xEF", "0xBF", "0xBD">>
    ELSE <<r>>

isLetter(ch) == ch \in LowerChars \cup UpperChars \cup {"U+00E9", "_"}

isDigit(ch) == ch \in Digits

hexValue(ch) ==
    IF ch \in Digits THEN DigitValue(ch)
    ELSE IF ch \in {"a", "A"} THEN 10
    ELSE IF ch \in {"b", "B"} THEN 11
    ELSE IF ch \in {"c", "C"} THEN 12
    ELSE IF ch \in {"d", "D"} THEN 13
    ELSE IF ch \in {"e", "E"} THEN 14
    ELSE IF ch \in {"f", "F"} THEN 15
    ELSE 0

\* rune(val) for the value of a \xHH escape: the characters of the model's
\* inputs by their code, any other code as one character "\\xHH"
RuneOfCode(val) ==
    CASE val = 0 -> "NUL"
      [] val = 10 -> "\n"
      [] val = 32 -> " "
      [] val = 34 -> "\""
      [] val = 39 -> "'"
      [] val = 45 -> "-"
      [] val = 46 -> "."
      [] val = 49 -> "1"
      [] val = 97 -> "a"
      [] val = 101 -> "e"
      [] OTHER -> "\\xHH"

Token(type, literal, line, column) ==
    [Type |-> type, Literal |-> literal, Line |-> line, Column |-> column]

\* token.go: LookupIdent over the keywords table
LookupIdent(ident) ==
    CASE ident = <<"p", "a", "c", "k", "a", "g", "e">> -> "PACKAGE"
      [] ident = <<"i", "m", "p", "o", "r", "t">> -> "IMPORT"
      [] ident = <<"o", "p", "t", "i", "o", "n">> -> "OPTION"
      [] ident = <<"e", "n", "u", "m">> -> "ENUM"
      [] ident = <<"e", "n", "t", "i", "t", "y">> -> "ENTITY"
      [] ident = <<"q", "u", "e", "r", "y">> -> "QUERY"
      [] ident = <<"s", "e", "r", "v", "i", "c", "e">> -> "SERVICE"
      [] ident = <<"r", "p", "c">> -> "RPC"
      [] ident = <<"r", "e", "t", "u", "r", "n", "s">> -> "RETURNS"
      [] ident = <<"s", "t", "r", "e", "a", "m">> -> "STREAM"
      [] ident = <<"w", "h", "e", "r", "e">> -> "WHERE"
      [] ident = <<"o", "r", "d", "e", "r", "_", "b", "y">> -> "ORDER_BY"
      [] ident = <<"l", "i", "m", "i", "t">> -> "LIMIT"
      [] ident = <<"A", "N", "D">> -> "AND"
      [] ident = <<"O", "R">> -> "OR"
      [] ident = <<"N", "O", "T">> -> "NOT"
      [] ident = <<"I", "N">> -> "IN"
      [] ident = <<"L", "I", "K", "E">> -> "LIKE"
      [] ident = <<"I", "S">> -> "IS"
      [] ident = <<"N", "U", "L", "L">> -> "NULL"
      [] ident = <<"A", "S", "C">> -> "ASC"
      [] ident = <<"D", "E", "S", "C">> -> "DESC"
      [] ident = <<"s", "t", "r", "i", "n", "g">> -> "TYPE_STRING"
      [] ident = <<"i", "n", "t", "3", "2">> -> "TYPE_INT32"
      [] ident = <<"i", "n", "t", "6", "4">> -> "TYPE_INT64"
      [] ident = <<"f", "l", "o", "a", "t">> -> "TYPE_FLOAT"
      [] ident = <<"d", "o", "u", "b", "l", "e">> -> "TYPE_DOUBLE"
      [] ident = <<"b", "o", "o", "l">> -> "TYPE_BOOL"
      [] ident = <<"b", "y", "t", "e", "s">> -> "TYPE_BYTES"
      [] ident = <<"t", "i", "m", "e", "s", "t", "a", "m", "p">> -> "TYPE_TIMESTAMP"
      [] ident = <<"t", "r", "u", "e">> -> "TRUE"
      [] ident = <<"f", "a", "l", "s", "e">> -> "FALSE"
      [] OTHER -> "IDENT"

\* input[from:to]
Slice(input, from, to) == SubSeq(input, from + 1, to)

readChar(l) ==
    LET atEnd == l.readPos >= Len(l.input)
        d == DecodeRune(l.input, l.readPos)
    IN [l EXCEPT !.pos = l.readPos,
                 !.ch = IF atEnd THEN "NUL" ELSE d.r,
                 !.readPos = IF atEnd THEN @ ELSE @ + d.width,
                 !.column = l.readPos - l.lineStart + 1]

peekChar(l) ==
    IF l.readPos >= Len(l.input) THEN "NUL"
    ELSE DecodeRune(l.input, l.readPos).r

\* lexer.New
New(input) ==
    readChar([input |-> input, pos |-> 0, readPos |-> 0, ch |-> "NUL",
              line |-> 1, column |-> 1, lineStart |-> 0])

newToken(l, tokenType, literal) == Token(tokenType, literal, l.line, l.column)

\* l.line++; l.lineStart = l.readPos
newLine(l) == [l EXCEPT !.line = @ + 1, !.lineStart = l.readPos]

RECURSIVE skipLineComment(_)
skipLineComment(l) ==
    IF l.ch # "\n" /\ l.ch # "NUL" THEN skipLineComment(readChar(l)) ELSE l

\* the loop of skipBlockComment
RECURSIVE skipBlockCommentLoop(_)
skipBlockCommentLoop(l) ==
    IF l.ch = "NUL" THEN l
    ELSE LET l1 == IF l.ch = "\n" THEN newLine(l) ELSE l
         IN IF l1.ch = "*" /\ peekChar(l1) = "/"
            THEN readChar(readChar(l1))
            ELSE skipBlockCommentLoop(readChar(l1))

skipBlockComment(l) == skipBlockCommentLoop(readChar(readChar(l)))

\* the inner loop of skipWhitespaceAndComments
RECURSIVE skipWhitespace(_)
skipWhitespace(l) ==
    IF l.ch \in {" ", "\t", "\r", "\n"}
    THEN skipWhitespace(readChar(IF l.ch = "\n" THEN newLine(l) ELSE l))
    ELSE l

RECURSIVE skipWhitespaceAndComments(_)
skipWhitespaceAndComments(l0) ==
    LET l == skipWhitespace(l0)
    IN IF l.ch = "/" /\ peekChar(l) = "/"
       THEN skipWhitespaceAndComments(skipLineComment(l))
       ELSE IF l.ch = "/" /\ peekChar(l) = "*"
       THEN skipWhitespaceAndComments(skipBlockComment(l))
       ELSE l

\* for isLetter(l.ch) || isDigit(l.ch) || l.ch == '_' { l.readChar() }
RECURSIVE readIdentChars(_)
readIdentChars(l) ==
    IF isLetter(l.ch) \/ isDigit(l.ch) \/ l.ch = "_"
    THEN readIdentChars(readChar(l)) ELSE l

\* the token of readIdentifier: l0 is the lexer at the call, l after the loop
identToken(l0, l) ==
    [l |-> l,
     tok |-> Token(LookupIdent(Slice(l.input, l0.pos, l.pos)),
                   Slice(l.input, l0.pos, l.pos), l.line, l0.column)]

readIdentifier(l0) == identToken(l0, readIdentChars(l0))

\* for isDigit(l.ch) { l.readChar() }
RECURSIVE readDigits(_)
readDigits(l) == IF isDigit(l.ch) THEN readDigits(readChar(l)) ELSE l

\* if l.ch == '-' { l.readChar() }
readSign(l) == IF l.ch = "-" THEN readChar(l) ELSE l

\* the decimal point of readNumber: the lexer after it, and isFloat
readFraction(l) ==
    IF l.ch = "." /\ isDigit(peekChar(l))
    THEN [l |-> readDigits(readChar(l)), isFloat |-> TRUE]
    ELSE [l |-> l, isFloat |-> FALSE]

\* if l.ch == '+' || l.ch == '-' { l.readChar() }
readExponentSign(l) == IF l.ch = "+" \/ l.ch = "-" THEN readChar(l) ELSE l

\* the exponent of readNumber
readExponent(s) ==
    IF s.l.ch = "e" \/ s.l.ch = "E"
    THEN [l |-> readDigits(readExponentSign(readChar(s.l))), isFloat |-> TRUE]
    ELSE s

\* the token of readNumber: l0 is the lexer at the call
numberToken(l0, s) ==
    [l |-> s.l,
     tok |-> Token(IF s.isFloat THEN "FLOAT" ELSE "INT",
                   Slice(s.l.input, l0.pos, s.l.pos), s.l.line, l0.column)]

readNumber(l0) ==
    numberToken(l0, readExponent(readFraction(readDigits(readSign(l0)))))

\* sb.WriteRune(r) in readString: s is the lexer with the builder
writeRune(s, r) == [s EXCEPT !.sb = @ \o EncodeRune(r)]

\* \xHH: s.l.ch is x
readHexEscape(s) ==
    LET h1 == readChar(s.l)
        h2 == readChar(h1)
    IN [l |-> h2,
        sb |-> s.sb \o EncodeRune(RuneOfCode(hexValue(h1.ch) * 16 + hexValue(h2.ch)))]

\* one escape of readString: s.l.ch is the character after the backslash
readEscape(s) ==
    CASE s.l.ch = "n" -> writeRune(s, "\n")
      [] s.l.ch = "r" -> writeRune(s, "\r")
      [] s.l.ch = "t" -> writeRune(s, "\t")
      [] s.l.ch = "x" -> readHexEscape(s)
      [] OTHER -> writeRune(s, s.l.ch)

\* l.readChar() on the lexer of s
readCharOf(s) == [s EXCEPT !.l = readChar(@)]

\* the loop of readString
RECURSIVE readStringLoop(_)
readStringLoop(s) ==
    IF s.l.ch # "\"" /\ s.l.ch # "NUL"
    THEN IF s.l.ch = "\\"
         THEN readStringLoop(readCharOf(readEscape(readCharOf(s))))
         ELSE IF s.l.ch = "\n"
         THEN readStringLoop(readCharOf(writeRune([s EXCEPT !.l = newLine(@)], "\n")))
         ELSE readStringLoop(readCharOf(writeRune(s, s.l.ch)))
    ELSE s

\* the token of readString: l0 is the lexer at the call
stringToken(l0, s) ==
    [l |-> s.l,
     tok |-> IF s.l.ch # "\""
             THEN Token("ILLEGAL",
                        <<"u", "n", "t", "e", "r", "m", "i", "n", "a", "t", "e", "d",
                          " ", "s", "t", "r", "i", "n", "g">>,
                        s.l.line, l0.column)
             ELSE Token("STRING", s.sb, s.l.line, l0.column)]

readString(l0) == stringToken(l0, readStringLoop([l |-> readChar(l0), sb |-> <<>>]))

\* the token type of a one-character token
SingleCharType(ch) ==
    CASE ch = "(" -> "LPAREN"
      [] ch = ")" -> "RPAREN"
      [] ch = "{" -> "LBRACE"
      [] ch = "}" -> "RBRACE"
      [] ch = "[" -> "LBRACKET"
      [] ch = "]" -> "RBRACKET"
      [] ch = ";" -> "SEMICOLON"
      [] ch = ":" -> "COLON"
      [] ch = "," -> "COMMA"
      [] ch = "." -> "DOT"
      [] ch = "@" -> "AT"
      [] ch = "?" -> "QUESTION"
      [] ch = "+" -> "PLUS"
      [] ch = "-" -> "MINUS"
      [] ch = "*" -> "STAR"
      [] ch = "/" -> "SLASH"
      [] ch = "%" -> "PERCENT"
      [] ch = "=" -> "EQUALS"
      [] ch = "<" -> "LT"
      [] ch = ">" -> "GT"
      [] OTHER -> "ILLEGAL"

\* the token type of the two-character token that starts with ch
TwoCharType(ch) ==
    CASE ch = "!" -> "BANG_EQ"
      [] ch = "<" -> "LT_EQ"
      [] ch = ">" -> "GT_EQ"
      [] OTHER -> "CONCAT"

\* the second character of the two-character token that starts with ch
SecondChar(ch) == IF ch = "|" THEN "|" ELSE "="

\* the case '-' of NextToken
MinusStartsNumber(l) == isDigit(peekChar(l))

\* the l.readChar() that ends NextToken
thenReadChar(r) == [r EXCEPT !.l = readChar(@)]

\* a token of one character: tok = l.newToken(tokenType, literal)
singleCharToken(l) ==
    [l |-> l,
     tok |-> newToken(l, SingleCharType(l.ch),
                      IF SingleCharType(l.ch) = "ILLEGAL" THEN EncodeRune(l.ch)
                      ELSE <<l.ch>>)]

\* a token of two characters: l1 is the lexer on its second character
twoCharToken(l, l1) ==
    [l |-> l1,
     tok |-> Token(TwoCharType(l.ch), <<l.ch, SecondChar(l.ch)>>, l1.line, l1.column - 1)]

\* the switch of NextToken, entered after skipWhitespaceAndComments
scanToken(l) ==
    IF l.ch = "NUL"
    THEN thenReadChar([l |-> l, tok |-> Token("EOF", <<>>, l.line, l.column)])
    ELSE IF l.ch = "-" /\ MinusStartsNumber(l)
    THEN thenReadChar(readNumber(l))
    ELSE IF l.ch \in {"!", "<", ">", "|"} /\ peekChar(l) = SecondChar(l.ch)
    THEN thenReadChar(twoCharToken(l, readChar(l)))
    ELSE IF l.ch = "\""
    THEN thenReadChar(readString(l))
    ELSE IF SingleCharType(l.ch) # "ILLEGAL"
    THEN thenReadChar(singleCharToken(l))
    ELSE IF isLetter(l.ch) THEN readIdentifier(l)
    ELSE IF isDigit(l.ch) THEN readNumber(l)
    ELSE thenReadChar(singleCharToken(l))

\* Lexer.NextToken: the lexer after the call and the token returned.  Only
\* the identifier and digit cases return early; every other case, the
\* number that starts with '-' included, ends with l.readChar().
NextToken(l0) == scanToken(skipWhitespaceAndComments(l0))

\* one iteration of the loop of Tokenize: r is what the call of NextToken
\* returned.  The result has the lexer after the call, the token list (nil
\* is <<>>), the error (<<>> for nil) and done, which tells that Tokenize
\* returns here
tokenizeStep(r) ==
    IF r.tok.Type = "ILLEGAL"
    THEN [l |-> r.l, tokens |-> <<>>,
          err |-> <<[Literal |-> r.tok.Literal, Line |-> r.tok.Line, Column |-> r.tok.Column]>>,
          done |-> TRUE]
    ELSE [l |-> r.l, tokens |-> <<r.tok>>, err |-> <<>>, done |-> r.tok.Type = "EOF"]

\* iterations b after iterations a: an error drops the tokens so far
tokenizeJoin(a, b) == IF b.err # <<>> THEN b ELSE [b EXCEPT !.tokens = a.tokens \o @]

\* the loop of Tokenize from lexer l, for n iterations at most, computed as
\* two halves, the second half from the lexer that the first half leaves
RECURSIVE tokenizeLoop(_, _)
RECURSIVE tokenizeThen(_, _)
tokenizeLoop(l, n) ==
    IF n = 1 THEN tokenizeStep(NextToken(l))
    ELSE tokenizeThen(tokenizeLoop(l, n \div 2), n - n \div 2)

tokenizeThen(a, n) == IF a.done THEN a ELSE tokenizeJoin(a, tokenizeLoop(a.l, n))

tokenizeReturn(t) == [l |-> t.l, tokens |-> t.tokens, err |-> t.err]

\* Lexer.Tokenize: every iteration but the last takes at least one byte, so
\* the loop ends within len(input) + 1 iterations
Tokenize(l) == tokenizeReturn(tokenizeLoop(l, Len(l.input) + 1))

(***************************************************************************)
(* parser.go: the Parser.  The lexer of a Parser is used by nextToken      *)
(* alone, so the parser record holds, in place of the Lexer, the tokens    *)
(* that the successive calls of p.l.NextToken() return (tokens) and the    *)
(* number of calls made (next).  errors holds one record per message of    *)
(* p.errors: the position and the two %s of                                *)
(* "line %d:%d: expected %s, got %s".  Two fields record history and are   *)
(* read by no operator of the parser: silent, the tokens that a branch for *)
(* "none of the expected tokens" skipped without calling curError, and     *)
(* dropped, the annotations that were parsed and then attached to nothing. *)
(*                                                                         *)
(* A parse method takes the parser record and returns r = [p, node]: the   *)
(* parser after the call and the node built.  The steps of a method work   *)
(* on such a pair, the node being the one under construction.              *)
(***************************************************************************)
\* the zero value of lexer.Token: TokenType 0 is ILLEGAL
ZeroToken == Token("ILLEGAL", <<>>, 0, 0)

\* the tokens that n successive calls of NextToken return, from lexer l,
\* up to the first call made at the end of the input: that call and every
\* call after it return the same EOF token.  The calls are computed as two
\* halves, the second half from the lexer that the first half leaves: last
\* tells that the first half made the call at the end of the input
lexCall(r, last) == [l |-> r.l, tokens |-> <<r.tok>>, last |-> last]

lexCallsJoin(a, b) == [l |-> b.l, tokens |-> a.tokens \o b.tokens, last |-> b.last]

RECURSIVE lexCalls(_, _)
RECURSIVE lexCallsThen(_, _)
lexCalls(l, n) ==
    IF n = 1 \/ l.pos >= Len(l.input)
    THEN lexCall(NextToken(l), l.pos >= Len(l.input))
    ELSE lexCallsThen(lexCalls(l, n \div 2), n - n \div 2)

lexCallsThen(a, n) == IF a.last THEN a ELSE lexCallsJoin(a, lexCalls(a.l, n))

lexTokens(l, n) == IF n = 0 THEN <<>> ELSE lexCalls(l, n).tokens

\* p.l.NextToken(): every call before the end of the input takes at least
\* one byte, so by call len(input) + 1 the lexer stands at the end of the
\* input; the last token of p.tokens is the one it returns from then on
lexerNextToken(p) ==
    p.tokens[IF p.next < Len(p.tokens) THEN p.next + 1 ELSE Len(p.tokens)]

nextToken(p) ==
    [p EXCEPT !.curToken = p.peekToken,
              !.peekToken = lexerNextToken(p),
              !.next = IF @ < Len(p.tokens) THEN @ + 1 ELSE @]

\* parser.New
NewParser(l) ==
    nextToken(nextToken([tokens |-> lexTokens(l, Len(l.input) + 1), next |-> 0,
                         curToken |-> ZeroToken, peekToken |-> ZeroToken,
                         errors |-> <<>>, silent |-> <<>>, dropped |-> <<>>]))

\* parser.NewFromString
NewFromString(input) == NewParser(New(input))

curTokenIs(p, t) == p.curToken.Type = t

peekTokenIs(p, t) == p.peekToken.Type = t

curError(p, expected) ==
    [p EXCEPT !.errors = Append(@, [Line |-> p.curToken.Line,
                                    Column |-> p.curToken.Column,
                                    expected |-> expected,
                                    got |-> p.curToken.Type])]

curPos(p) == Position(p.curToken.Line, p.curToken.Column)

KeywordsAsIdent ==
    {"LIMIT", "WHERE", "ORDER_BY", "QUERY", "ASC", "DESC", "AND", "OR", "NOT",
     "IN", "LIKE", "IS", "NULL"}

isKeywordAsIdent(p) == p.curToken.Type \in KeywordsAsIdent

\* if p.curTokenIs(t) { p.nextToken() }
skipOptional(p, t) == IF curTokenIs(p, t) THEN nextToken(p) ELSE p

\* p.nextToken() in a branch that met none of the tokens it accepts and
\* reports nothing
skipSilently(p) == nextToken([p EXCEPT !.silent = Append(@, p.curToken)])

\* a parser with the node under construction
Res(p, node) == [p |-> p, node |-> node]

\* p.nextToken() on the parser of r
advance(r) == [r EXCEPT !.p = nextToken(@)]

\* p.curError(expected); return node
fail(r, expected) == [r EXCEPT !.p = curError(@, expected)]

\* the optional token that ends a construct
closeWith(r, t) == [r EXCEPT !.p = skipOptional(@, t)]

\* p.curError(expected); p.nextToken()
errorAndSkip(r, expected) == [r EXCEPT !.p = nextToken(curError(@, expected))]

\* node.Name = p.curToken.Literal; p.nextToken()
takeName(r) == [p |-> nextToken(r.p), node |-> [r.node EXCEPT !.Name = r.p.curToken.Literal]]

\* list = append(list, node): acc is the parser with the list so far
appendNode(acc, r) == [p |-> r.p, node |-> Append(acc.node, r.node)]

(***************************************************************************)
(* Values of annotation arguments, options and parameter defaults          *)
(* (interface{}): vtype is the dynamic type.                               *)
(***************************************************************************)
StringValue(s) == [vtype |-> "string", str |-> s]
IntValue(n) == [vtype |-> "int64", int |-> n]
FloatValue(u) == [vtype |-> "float64", micro |-> u]
BoolValue(b) == [vtype |-> "bool", bool |-> b]
NilValue == [vtype |-> "nil"]
ListValue(items) == [vtype |-> "list", items |-> items]

\* the digits of text from its start, as a number, and how many there are
RECURSIVE LeadingDigits(_, _, _)
LeadingDigits(text, acc, n) ==
    IF text # <<>> /\ Head(text) \in Digits
    THEN LeadingDigits(Tail(text), acc * 10 + DigitValue(Head(text)), n + 1)
    ELSE [value |-> acc, count |-> n, rest |-> text]

\* strconv.ParseInt(literal, 10, 64) and strconv.Atoi with the error
\* dropped: 0 when the text is no integer
ParseInt(literal) ==
    LET neg == literal # <<>> /\ Head(literal) = "-"
        d == LeadingDigits(IF neg THEN Tail(literal) ELSE literal, 0, 0)
    IN IF d.count = 0 \/ d.rest # <<>> THEN 0
       ELSE IF neg THEN -d.value ELSE d.value

RECURSIVE Pow10(_)
Pow10(n) == IF n = 0 THEN 1 ELSE 10 * Pow10(n - 1)

\* strconv.ParseFloat(literal, 64) with the error dropped, in millionths:
\* 0 when the text is no float (an exponent without digits)
ParseFloat(literal) ==
    LET neg == literal # <<>> /\ Head(literal) = "-"
        ip == LeadingDigits(IF neg THEN Tail(literal) ELSE literal, 0, 0)
        hasPoint == ip.rest # <<>> /\ Head(ip.rest) = "."
        fp == IF hasPoint THEN LeadingDigits(Tail(ip.rest), 0, 0)
              ELSE [value |-> 0, count |-> 0, rest |-> ip.rest]
        hasExp == fp.rest # <<>> /\ Head(fp.rest) \in {"e", "E"}
        afterE == IF hasExp THEN Tail(fp.rest) ELSE fp.rest
        expNeg == hasExp /\ afterE # <<>> /\ Head(afterE) = "-"
        expSigned == hasExp /\ afterE # <<>> /\ Head(afterE) \in {"+", "-"}
        ep == IF hasExp
              THEN LeadingDigits(IF expSigned THEN Tail(afterE) ELSE afterE, 0, 0)
              ELSE [value |-> 0, count |-> 0, rest |-> afterE]
        frac == IF fp.count <= 6 THEN fp.value * Pow10(6 - fp.count)
                ELSE fp.value \div Pow10(fp.count - 6)
        mant == ip.value * 1000000 + frac
        scaled == IF expNeg THEN mant \div Pow10(ep.value) ELSE mant * Pow10(ep.value)
    IN IF ip.count = 0 \/ (hasExp /\ ep.count = 0) \/ ep.rest # <<>> THEN 0
       ELSE IF neg THEN -scaled ELSE scaled

\* Parser.parseValue: the value of the current token; it does not advance
parseValue(p) ==
    CASE p.curToken.Type = "STRING" -> StringValue(p.curToken.Literal)
      [] p.curToken.Type = "INT" -> IntValue(ParseInt(p.curToken.Literal))
      [] p.curToken.Type = "FLOAT" -> FloatValue(ParseFloat(p.curToken.Literal))
      [] p.curToken.Type = "TRUE" -> BoolValue(TRUE)
      [] p.curToken.Type = "FALSE" -> BoolValue(FALSE)
      [] p.curToken.Type = "IDENT" -> StringValue(p.curToken.Literal)
      [] OTHER -> NilValue

\* the token types parseValue has a case for
ValueTokens == {"STRING", "INT", "FLOAT", "TRUE", "FALSE", "IDENT"}

\* decl.Value = p.parseValue(); p.nextToken()
nextTokenAfterValue(p) ==
    IF p.curToken.Type \in ValueTokens THEN nextToken(p) ELSE skipSilently(p)

(***************************************************************************)
(* Declarations of parser/ast.go.  A pointer that may be nil is a sequence *)
(* of at most one node.                                                    *)
(***************************************************************************)
File(pos) ==
    [Position |-> pos, Package |-> <<>>, Imports |-> <<>>, Options |-> <<>>,
     Enums |-> <<>>, Entities |-> <<>>, Services |-> <<>>]
PackageDecl(pos, name) == [Position |-> pos, Name |-> name]
ImportDecl(pos, path) == [Position |-> pos, Path |-> path]
OptionDecl(pos, name, value) == [Position |-> pos, Name |-> name, Value |-> value]
EnumDecl(pos, name, values) == [Position |-> pos, Name |-> name, Values |-> values]
EnumValue(pos, name, number) == [Position |-> pos, Name |-> name, Number |-> number]
EntityDecl(pos, anns, name, fields, queries) ==
    [Position |-> pos, Annotations |-> anns, Name |-> name, Fields |-> fields,
     Queries |-> queries]
Annotation(pos, name, args) == [Position |-> pos, Name |-> name, Args |-> args]
AnnotationArg(pos, name, value) == [Position |-> pos, Name |-> name, Value |-> value]
FieldDecl(pos, anns, name, type) ==
    [Position |-> pos, Annotations |-> anns, Name |-> name, Type |-> type]
TypeRef(pos, name, optional) == [Position |-> pos, Name |-> name, Optional |-> optional]
QueryDecl(pos, name, ps, where, orderBy, limit) ==
    [Position |-> pos, Name |-> name, Params |-> ps, Where |-> where,
     OrderBy |-> orderBy, Limit |-> limit]
QueryParam(pos, name, type, default) ==
    [Position |-> pos, Name |-> name, Type |-> type, Default |-> default]
OrderByField(pos, field, descending) ==
    [Position |-> pos, Field |-> field, Descending |-> descending]
ServiceDecl(pos, name, methods) == [Position |-> pos, Name |-> name, Methods |-> methods]
RpcDecl(pos, name, req, resp) ==
    [Position |-> pos, Name |-> name, RequestType |-> req, ResponseType |-> resp]
RpcType(pos, name, stream) == [Position |-> pos, Name |-> name, Stream |-> stream]

(***************************************************************************)
(* Expressions: precedence climbing.                                       *)
(***************************************************************************)
RECURSIVE parseOrExpr(_)
RECURSIVE parseOrLoop(_)
RECURSIVE parseAndExpr(_)
RECURSIVE parseAndLoop(_)
RECURSIVE parseCompareExpr(_)
RECURSIVE parseCompareRest(_)
RECURSIVE parseAddExpr(_)
RECURSIVE parseAddLoop(_)
RECURSIVE parseMulExpr(_)
RECURSIVE parseMulLoop(_)
RECURSIVE parseUnaryExpr(_)
RECURSIVE parsePrimaryExpr(_)
RECURSIVE parseCallExpr(_, _, _)
RECURSIVE parseCallArgs(_)

\* &BinaryExpr{Position: pos, Left: left, Op: op, Right: right}: l is the
\* left operand with the parser on the operator, r the right operand
binaryExpr(l, r) ==
    [p |-> r.p, node |-> BinaryExprAt(curPos(l.p), l.p.curToken.Literal, l.node, r.node)]

\* &UnaryExpr{Position: pos, Op: op, Operand: operand}: p is the parser on
\* the operator
unaryExpr(p, op, r) == [p |-> r.p, node |-> UnaryExprAt(curPos(p), op, r.node)]

parseExpression(p) == parseOrExpr(p)

\* A method that loops on the operators of its level is one loop here: l is
\* the parser with left, the operand so far, and with NoLeft before the
\* first operand is parsed.
NoLeft == [kind |-> "none"]

noLeft(p) == [p |-> p, node |-> NoLeft]

\* the parser at the next operand: p.nextToken() when it is on an operator
atOperand(l) == IF l.node = NoLeft THEN l.p ELSE nextToken(l.p)

\* left := <operand>, and in the loop
\* left = &BinaryExpr{Position: pos, Left: left, Op: op, Right: right}
withOperand(l, r) ==
    IF l.node = NoLeft THEN r
    ELSE [p |-> r.p,
          node |-> BinaryExprAt(curPos(l.p), l.p.curToken.Literal, l.node, r.node)]

\* left := p.parseAndExpr(); for p.curTokenIs(lexer.OR) { ... }
parseOrLoop(l) ==
    IF l.node = NoLeft \/ curTokenIs(l.p, "OR")
    THEN parseOrLoop(withOperand(l, parseAndExpr(atOperand(l))))
    ELSE l

parseOrExpr(p) == parseOrLoop(noLeft(p))

\* left := p.parseCompareExpr(); for p.curTokenIs(lexer.AND) { ... }
parseAndLoop(l) ==
    IF l.node = NoLeft \/ curTokenIs(l.p, "AND")
    THEN parseAndLoop(withOperand(l, parseCompareExpr(atOperand(l))))
    ELSE l

parseAndExpr(p) == parseAndLoop(noLeft(p))

\* the token types of the binary cases of parseCompareExpr
CompareOps == {"EQUALS", "BANG_EQ", "LT", "LT_EQ", "GT", "GT_EQ", "LIKE", "IN"}

\* case lexer.IS: p is the parser after IS
isNullExpr(l, p) ==
    Res(skipOptional(skipOptional(p, "NOT"), "NULL"),
        IsNullExprAt(curPos(l.p), l.node, curTokenIs(p, "NOT")))

\* the switch of parseCompareExpr
parseCompareRest(l) ==
    IF l.p.curToken.Type \in CompareOps
    THEN binaryExpr(l, parseAddExpr(nextToken(l.p)))
    ELSE IF curTokenIs(l.p, "IS")
    THEN isNullExpr(l, nextToken(l.p))
    ELSE l

parseCompareExpr(p) == parseCompareRest(parseAddExpr(p))

\* the token types parseAddExpr loops on
AddOps == {"PLUS", "MINUS", "CONCAT"}

\* left := p.parseMulExpr(); for PLUS, MINUS or CONCAT { ... }
parseAddLoop(l) ==
    IF l.node = NoLeft \/ l.p.curToken.Type \in AddOps
    THEN parseAddLoop(withOperand(l, parseMulExpr(atOperand(l))))
    ELSE l

parseAddExpr(p) == parseAddLoop(noLeft(p))

\* the token types parseMulExpr loops on
MulOps == {"STAR", "SLASH", "PERCENT"}

\* left := p.parseUnaryExpr(); for STAR, SLASH or PERCENT { ... }
parseMulLoop(l) ==
    IF l.node = NoLeft \/ l.p.curToken.Type \in MulOps
    THEN parseMulLoop(withOperand(l, parseUnaryExpr(atOperand(l))))
    ELSE l

parseMulExpr(p) == parseMulLoop(noLeft(p))

\* the operator of a unary expression, none on another token
UnaryOp(p) ==
    IF curTokenIs(p, "NOT") THEN <<"N", "O", "T">>
    ELSE IF curTokenIs(p, "MINUS") THEN <<"-">>
    ELSE <<>>

parseUnaryExpr(p) ==
    IF UnaryOp(p) # <<>>
    THEN unaryExpr(p, UnaryOp(p), parseUnaryExpr(nextToken(p)))
    ELSE parsePrimaryExpr(p)

\* the literal cases of parsePrimaryExpr
literalExpr(p) ==
    CASE p.curToken.Type = "INT" -> IntLitAt(curPos(p), ParseInt(p.curToken.Literal))
      [] p.curToken.Type = "FLOAT" -> FloatLitAt(curPos(p), ParseFloat(p.curToken.Literal))
      [] p.curToken.Type = "STRING" -> StringLitAt(curPos(p), p.curToken.Literal)
      [] p.curToken.Type = "TRUE" -> BoolLitAt(curPos(p), TRUE)
      [] p.curToken.Type = "FALSE" -> BoolLitAt(curPos(p), FALSE)

LiteralTokens == {"INT", "FLOAT", "STRING", "TRUE", "FALSE"}

\* case lexer.LPAREN of parsePrimaryExpr: p is the parser on the parenthesis
parenExpr(p, r) == Res(skipOptional(r.p, "RPAREN"), ParenExprAt(curPos(p), r.node))

parsePrimaryExpr(p) ==
    IF isKeywordAsIdent(p)
    THEN Res(nextToken(p), IdentExprAt(curPos(p), p.curToken.Literal))
    ELSE IF curTokenIs(p, "IDENT")
    THEN IF peekTokenIs(p, "LPAREN")
         THEN parseCallExpr(nextToken(p), p.curToken.Literal, curPos(p))
         ELSE Res(nextToken(p), IdentExprAt(curPos(p), p.curToken.Literal))
    ELSE IF p.curToken.Type \in LiteralTokens
    THEN Res(nextToken(p), literalExpr(p))
    ELSE IF curTokenIs(p, "LPAREN")
    THEN parenExpr(p, parseExpression(nextToken(p)))
    ELSE Res(nextToken(curError(p, "expression")), NilLitAt(curPos(p)))

\* the loop of parseCallExpr: acc is the parser with the arguments so far
callArgsNext(acc) ==
    IF curTokenIs(acc.p, "COMMA") THEN parseCallArgs(advance(acc)) ELSE acc

parseCallArgs(acc) ==
    IF ~curTokenIs(acc.p, "RPAREN") /\ ~curTokenIs(acc.p, "EOF")
    THEN callArgsNext(appendNode(acc, parseExpression(acc.p)))
    ELSE acc

\* &CallExpr{Position: pos, Name: name, Args: args}
callExpr(pos, name, acc) ==
    Res(skipOptional(acc.p, "RPAREN"), CallExprAt(pos, name, acc.node))

parseCallExpr(p, name, pos) ==
    callExpr(pos, name, parseCallArgs(Res(nextToken(p), <<>>)))

(***************************************************************************)
(* Declarations.  In the steps below r is the parser with the declaration  *)
(* under construction; a step that returns early leaves the rest of the    *)
(* declaration at its zero value.                                          *)
(***************************************************************************)
\* node.f = append(node.f, v): v is a parsed node with the parser after it
appendTo(r, f, v) == [p |-> v.p, node |-> [r.node EXCEPT ![f] = Append(@, v.node)]]

\* node.f = v for a slice
setField(r, f, v) == [p |-> v.p, node |-> [r.node EXCEPT ![f] = v.node]]

\* node.f = v for a pointer or an interface
setPtr(r, f, v) == [p |-> v.p, node |-> [r.node EXCEPT ![f] = <<v.node>>]]

\* node.Annotations = annotations
withAnnotations(r, annotations) == [r EXCEPT !.node.Annotations = annotations]

\* decl.Value = p.parseValue(); p.nextToken()
takeValue(r, f) ==
    Res(nextTokenAfterValue(r.p), [r.node EXCEPT ![f] = parseValue(r.p)])

RECURSIVE packageNameLoop(_)
RECURSIVE packageNamePart(_)

\* decl.Name += "." + p.curToken.Literal, after the '.'
packageNamePart(r) ==
    IF ~curTokenIs(r.p, "IDENT")
    THEN fail(r, "identifier after '.'")
    ELSE packageNameLoop(Res(nextToken(r.p),
                             [r.node EXCEPT !.Name = @ \o <<".">> \o r.p.curToken.Literal]))

\* for p.curTokenIs(lexer.DOT) { ... }
packageNameLoop(r) ==
    IF curTokenIs(r.p, "DOT") THEN packageNamePart(advance(r)) ELSE r

packageName(r) ==
    IF ~curTokenIs(r.p, "IDENT")
    THEN fail(r, "package name")
    ELSE closeWith(packageNameLoop(takeName(r)), "SEMICOLON")

parsePackageDecl(p) == packageName(Res(nextToken(p), PackageDecl(curPos(p), <<>>)))

importPath(r) ==
    IF ~curTokenIs(r.p, "STRING")
    THEN fail(r, "import path string")
    ELSE closeWith(Res(nextToken(r.p), [r.node EXCEPT !.Path = r.p.curToken.Literal]),
                   "SEMICOLON")

parseImportDecl(p) == importPath(Res(nextToken(p), ImportDecl(curPos(p), <<>>)))

optionEquals(r) ==
    IF ~curTokenIs(r.p, "EQUALS")
    THEN fail(r, "'='")
    ELSE closeWith(takeValue(advance(r), "Value"), "SEMICOLON")

optionName(r) ==
    IF ~curTokenIs(r.p, "IDENT") THEN fail(r, "option name") ELSE optionEquals(takeName(r))

parseOptionDecl(p) == optionName(Res(nextToken(p), OptionDecl(curPos(p), <<>>, NilValue)))

\* if p.curTokenIs(lexer.INT) { value.Number = num; p.nextToken() }
enumNumberValue(r) ==
    IF curTokenIs(r.p, "INT")
    THEN Res(nextToken(r.p), [r.node EXCEPT !.Number = ParseInt(r.p.curToken.Literal)])
    ELSE r

\* if p.curTokenIs(lexer.EQUALS) { ... }
enumNumber(r) == IF curTokenIs(r.p, "EQUALS") THEN enumNumberValue(advance(r)) ELSE r

\* one value of an enum: NAME [= INT] [;]
parseEnumValue(p) ==
    closeWith(enumNumber(Res(nextToken(p), EnumValue(curPos(p), p.curToken.Literal, 0))),
              "SEMICOLON")

\* the loop of parseEnumDecl
RECURSIVE parseEnumBody(_)
parseEnumBody(r) ==
    IF ~curTokenIs(r.p, "RBRACE") /\ ~curTokenIs(r.p, "EOF")
    THEN IF curTokenIs(r.p, "IDENT")
         THEN parseEnumBody(appendTo(r, "Values", parseEnumValue(r.p)))
         ELSE parseEnumBody(errorAndSkip(r, "enum value name"))
    ELSE r

enumOpen(r) ==
    IF ~curTokenIs(r.p, "LBRACE")
    THEN fail(r, "'{'")
    ELSE closeWith(parseEnumBody(advance(r)), "RBRACE")

enumName(r) ==
    IF ~curTokenIs(r.p, "IDENT") THEN fail(r, "enum name") ELSE enumOpen(takeName(r))

parseEnumDecl(p) == enumName(Res(nextToken(p), EnumDecl(curPos(p), <<>>, <<>>)))

RECURSIVE parseAnnotationValue(_)
RECURSIVE parseAnnotationList(_)
RECURSIVE parseAnnotationListLoop(_)

\* the loop of parseAnnotationList: acc is the parser with the values so far
parseAnnotationListLoop(acc) ==
    IF ~curTokenIs(acc.p, "RBRACKET") /\ ~curTokenIs(acc.p, "EOF")
    THEN parseAnnotationListLoop(
             closeWith(appendNode(acc, parseAnnotationValue(acc.p)), "COMMA"))
    ELSE acc

\* return values
listValue(acc) == Res(acc.p, ListValue(acc.node))

parseAnnotationList(p) ==
    listValue(closeWith(parseAnnotationListLoop(Res(nextToken(p), <<>>)), "RBRACKET"))

\* the cases STRING, INT, FLOAT, TRUE, FALSE and IDENT convert the token
\* as parseValue does and advance
parseAnnotationValue(p) ==
    IF p.curToken.Type \in ValueTokens
    THEN Res(nextToken(p), parseValue(p))
    ELSE IF curTokenIs(p, "LBRACKET")
    THEN parseAnnotationList(p)
    ELSE Res(skipSilently(p), NilValue)

\* AnnotationArg{Position, Name, Value}
annotationArg(pos, name, v) == Res(v.p, AnnotationArg(pos, name, v.node))

parseAnnotationArg(p) ==
    IF curTokenIs(p, "IDENT") /\ (peekTokenIs(p, "EQUALS") \/ peekTokenIs(p, "COLON"))
    THEN annotationArg(curPos(p), p.curToken.Literal,
                       parseAnnotationValue(nextToken(nextToken(p))))
    ELSE annotationArg(curPos(p), <<>>, parseAnnotationValue(p))

\* the loop of parseAnnotation over the arguments
RECURSIVE parseAnnotationArgs(_)
RECURSIVE annotationArgsNext(_)
annotationArgsNext(r) ==
    IF curTokenIs(r.p, "COMMA") THEN parseAnnotationArgs(advance(r)) ELSE r

parseAnnotationArgs(r) ==
    IF ~curTokenIs(r.p, "RPAREN") /\ ~curTokenIs(r.p, "EOF")
    THEN annotationArgsNext(appendTo(r, "Args", parseAnnotationArg(r.p)))
    ELSE r

\* if p.curTokenIs(lexer.LPAREN) { ... }
annotationArguments(r) ==
    IF curTokenIs(r.p, "LPAREN")
    THEN closeWith(parseAnnotationArgs(advance(r)), "RPAREN")
    ELSE r

annotationName(r) ==
    IF ~curTokenIs(r.p, "IDENT")
    THEN fail(r, "annotation name")
    ELSE annotationArguments(takeName(r))

parseAnnotation(p) == annotationName(Res(nextToken(p), Annotation(curPos(p), <<>>, <<>>)))

RECURSIVE parseAnnotationsLoop(_)
parseAnnotationsLoop(acc) ==
    IF curTokenIs(acc.p, "AT")
    THEN parseAnnotationsLoop(appendNode(acc, parseAnnotation(acc.p)))
    ELSE acc

parseAnnotations(p) == parseAnnotationsLoop(Res(p, <<>>))

\* the name parseTypeRef gives a type token
TypeName(tok) ==
    CASE tok.Type = "TYPE_STRING" -> <<"s", "t", "r", "i", "n", "g">>
      [] tok.Type = "TYPE_INT32" -> <<"i", "n", "t", "3", "2">>
      [] tok.Type = "TYPE_INT64" -> <<"i", "n", "t", "6", "4">>
      [] tok.Type = "TYPE_FLOAT" -> <<"f", "l", "o", "a", "t">>
      [] tok.Type = "TYPE_DOUBLE" -> <<"d", "o", "u", "b", "l", "e">>
      [] tok.Type = "TYPE_BOOL" -> <<"b", "o", "o", "l">>
      [] tok.Type = "TYPE_BYTES" -> <<"b", "y", "t", "e", "s">>
      [] tok.Type = "TYPE_TIMESTAMP" -> <<"t", "i", "m", "e", "s", "t", "a", "m", "p">>
      [] tok.Type = "IDENT" -> tok.Literal

\* the token types parseTypeRef has a case for
TypeTokens ==
    {"TYPE_STRING", "TYPE_INT32", "TYPE_INT64", "TYPE_FLOAT", "TYPE_DOUBLE",
     "TYPE_BOOL", "TYPE_BYTES", "TYPE_TIMESTAMP", "IDENT"}

parseTypeRef(p) ==
    IF p.curToken.Type \notin TypeTokens
    THEN Res(curError(p, "type name"), TypeRef(curPos(p), <<>>, FALSE))
    ELSE Res(skipOptional(nextToken(p), "QUESTION"),
             TypeRef(curPos(p), TypeName(p.curToken), peekTokenIs(p, "QUESTION")))

fieldColon(r) ==
    IF ~curTokenIs(r.p, "COLON")
    THEN fail(r, "':'")
    ELSE closeWith(setPtr(r, "Type", parseTypeRef(nextToken(r.p))), "SEMICOLON")

fieldName(r) ==
    IF ~curTokenIs(r.p, "IDENT") THEN fail(r, "field name") ELSE fieldColon(takeName(r))

parseFieldDecl(p) == fieldName(Res(p, FieldDecl(curPos(p), <<>>, <<>>, <<>>)))

\* if p.curTokenIs(lexer.EQUALS) { p.nextToken(); param.Default = ... }
paramDefault(r) ==
    IF curTokenIs(r.p, "EQUALS") THEN takeValue(advance(r), "Default") ELSE r

paramColon(r) ==
    IF ~curTokenIs(r.p, "COLON")
    THEN fail(r, "':'")
    ELSE paramDefault(setPtr(r, "Type", parseTypeRef(nextToken(r.p))))

paramName(r) ==
    IF ~curTokenIs(r.p, "IDENT") /\ ~isKeywordAsIdent(r.p)
    THEN fail(r, "parameter name")
    ELSE paramColon(takeName(r))

parseQueryParam(p) == paramName(Res(p, QueryParam(curPos(p), <<>>, <<>>, NilValue)))

\* one field of ORDER BY: name [ASC | DESC]
orderByField(p) ==
    Res(IF peekTokenIs(p, "ASC") \/ peekTokenIs(p, "DESC")
        THEN nextToken(nextToken(p)) ELSE nextToken(p),
        OrderByField(curPos(p), p.curToken.Literal, peekTokenIs(p, "DESC")))

RECURSIVE parseOrderByLoop(_)
RECURSIVE orderByNext(_)
orderByNext(acc) ==
    IF curTokenIs(acc.p, "COMMA") THEN parseOrderByLoop(advance(acc)) ELSE acc

parseOrderByLoop(acc) ==
    IF ~curTokenIs(acc.p, "IDENT") THEN acc
    ELSE orderByNext(appendNode(acc, orderByField(acc.p)))

parseOrderBy(p) == parseOrderByLoop(Res(p, <<>>))

\* the loop of parseQueryDecl over the parameters
RECURSIVE parseQueryParams(_)
RECURSIVE queryParamsNext(_)
queryParamsNext(r) ==
    IF curTokenIs(r.p, "COMMA") THEN parseQueryParams(advance(r)) ELSE r

parseQueryParams(r) ==
    IF ~curTokenIs(r.p, "RPAREN") /\ ~curTokenIs(r.p, "EOF")
    THEN queryParamsNext(appendTo(r, "Params", parseQueryParam(r.p)))
    ELSE r

\* the loop of parseQueryDecl over the body
RECURSIVE parseQueryBody(_)
parseQueryBody(r) ==
    IF ~curTokenIs(r.p, "RBRACE") /\ ~curTokenIs(r.p, "EOF")
    THEN IF curTokenIs(r.p, "WHERE")
         THEN parseQueryBody(setPtr(r, "Where", parseExpression(nextToken(r.p))))
         ELSE IF curTokenIs(r.p, "ORDER_BY")
         THEN parseQueryBody(setField(r, "OrderBy", parseOrderBy(nextToken(r.p))))
         ELSE IF curTokenIs(r.p, "LIMIT")
         THEN parseQueryBody(setPtr(r, "Limit", parsePrimaryExpr(nextToken(r.p))))
         ELSE parseQueryBody(errorAndSkip(r, "where, order_by, limit, or '}'"))
    ELSE r

queryOpenBody(r) ==
    IF ~curTokenIs(r.p, "LBRACE")
    THEN fail(r, "'{'")
    ELSE closeWith(parseQueryBody(advance(r)), "RBRACE")

queryOpenParams(r) ==
    IF ~curTokenIs(r.p, "LPAREN")
    THEN fail(r, "'('")
    ELSE queryOpenBody(closeWith(parseQueryParams(advance(r)), "RPAREN"))

queryName(r) ==
    IF ~curTokenIs(r.p, "IDENT") THEN fail(r, "query name")
    ELSE queryOpenParams(takeName(r))

parseQueryDecl(p) ==
    queryName(Res(nextToken(p), QueryDecl(curPos(p), <<>>, <<>>, <<>>, <<>>, <<>>)))

\* case p.curTokenIs(lexer.AT) of the entity body: a is the annotations
\* parsed; they go to the field that follows, and to nothing when no
\* identifier follows
annotatedField(r, a) ==
    IF curTokenIs(a.p, "IDENT")
    THEN appendTo(r, "Fields", withAnnotations(parseFieldDecl(a.p), a.node))
    ELSE Res([a.p EXCEPT !.dropped = @ \o a.node], r.node)

\* the loop of parseEntityDecl
RECURSIVE parseEntityBody(_)
parseEntityBody(r) ==
    IF ~curTokenIs(r.p, "RBRACE") /\ ~curTokenIs(r.p, "EOF")
    THEN IF curTokenIs(r.p, "AT")
         THEN parseEntityBody(annotatedField(r, parseAnnotations(r.p)))
         ELSE IF curTokenIs(r.p, "IDENT")
         THEN parseEntityBody(appendTo(r, "Fields", parseFieldDecl(r.p)))
         ELSE IF curTokenIs(r.p, "QUERY")
         THEN parseEntityBody(appendTo(r, "Queries", parseQueryDecl(r.p)))
         ELSE parseEntityBody(errorAndSkip(r, "field, query, or '}'"))
    ELSE r

entityOpen(r) ==
    IF ~curTokenIs(r.p, "LBRACE")
    THEN fail(r, "'{'")
    ELSE closeWith(parseEntityBody(advance(r)), "RBRACE")

entityName(r) ==
    IF ~curTokenIs(r.p, "IDENT") THEN fail(r, "entity name") ELSE entityOpen(takeName(r))

parseEntityDecl(p) ==
    entityName(Res(nextToken(p), EntityDecl(curPos(p), <<>>, <<>>, <<>>, <<>>)))

rpcTypeName(r) ==
    IF ~curTokenIs(r.p, "IDENT") THEN fail(r, "type name") ELSE takeName(r)

parseRpcType(p) ==
    rpcTypeName(Res(skipOptional(p, "STREAM"),
                    RpcType(curPos(p), <<>>, curTokenIs(p, "STREAM"))))

rpcResponseClose(r) ==
    IF ~curTokenIs(r.p, "RPAREN") THEN fail(r, "')'")
    ELSE closeWith(advance(r), "SEMICOLON")

rpcResponseOpen(r) ==
    IF ~curTokenIs(r.p, "LPAREN") THEN fail(r, "'('")
    ELSE rpcResponseClose(setPtr(r, "ResponseType", parseRpcType(nextToken(r.p))))

rpcReturns(r) ==
    IF ~curTokenIs(r.p, "RETURNS") THEN fail(r, "'returns'")
    ELSE rpcResponseOpen(advance(r))

rpcRequestClose(r) ==
    IF ~curTokenIs(r.p, "RPAREN") THEN fail(r, "')'") ELSE rpcReturns(advance(r))

rpcRequestOpen(r) ==
    IF ~curTokenIs(r.p, "LPAREN") THEN fail(r, "'('")
    ELSE rpcRequestClose(setPtr(r, "RequestType", parseRpcType(nextToken(r.p))))

rpcName(r) ==
    IF ~curTokenIs(r.p, "IDENT") THEN fail(r, "rpc name") ELSE rpcRequestOpen(takeName(r))

parseRpcDecl(p) == rpcName(Res(nextToken(p), RpcDecl(curPos(p), <<>>, <<>>, <<>>)))

\* the loop of parseServiceDecl
RECURSIVE parseServiceBody(_)
parseServiceBody(r) ==
    IF ~curTokenIs(r.p, "RBRACE") /\ ~curTokenIs(r.p, "EOF")
    THEN IF curTokenIs(r.p, "RPC")
         THEN parseServiceBody(appendTo(r, "Methods", parseRpcDecl(r.p)))
         ELSE parseServiceBody(errorAndSkip(r, "rpc or '}'"))
    ELSE r

serviceOpen(r) ==
    IF ~curTokenIs(r.p, "LBRACE")
    THEN fail(r, "'{'")
    ELSE closeWith(parseServiceBody(advance(r)), "RBRACE")

serviceName(r) ==
    IF ~curTokenIs(r.p, "IDENT") THEN fail(r, "service name")
    ELSE serviceOpen(takeName(r))

parseServiceDecl(p) == serviceName(Res(nextToken(p), ServiceDecl(curPos(p), <<>>, <<>>)))

\* case lexer.AT of ParseFile: a is the annotations parsed
annotatedEntity(r, a) ==
    IF curTokenIs(a.p, "ENTITY")
    THEN appendTo(r, "Entities", withAnnotations(parseEntityDecl(a.p), a.node))
    ELSE Res(nextToken(curError(a.p, "entity after annotations")), r.node)

\* mutant of unexpectedDeclaration: the token is reported and stays current
unexpectedDeclaration_Stay(r) ==
    fail(r, "package, import, option, enum, entity, or service")

\* the default case of the switch of ParseFile
unexpectedDeclaration(r) ==
    errorAndSkip(r, "package, import, option, enum, entity, or service")

\* the switch of ParseFile: r is the parser with the file
parseFileDecl(r) ==
    CASE curTokenIs(r.p, "PACKAGE") -> setPtr(r, "Package", parsePackageDecl(r.p))
      [] curTokenIs(r.p, "IMPORT") -> appendTo(r, "Imports", parseImportDecl(r.p))
      [] curTokenIs(r.p, "OPTION") -> appendTo(r, "Options", parseOptionDecl(r.p))
      [] curTokenIs(r.p, "ENUM") -> appendTo(r, "Enums", parseEnumDecl(r.p))
      [] curTokenIs(r.p, "AT") -> annotatedEntity(r, parseAnnotations(r.p))
      [] curTokenIs(r.p, "ENTITY") -> appendTo(r, "Entities", parseEntityDecl(r.p))
      [] curTokenIs(r.p, "SERVICE") -> appendTo(r, "Services", parseServiceDecl(r.p))
      [] OTHER -> unexpectedDeclaration(r)

RECURSIVE parseFileLoop(_)
parseFileLoop(r) ==
    IF curTokenIs(r.p, "EOF") THEN r ELSE parseFileLoop(parseFileDecl(r))

\* the parser at the end of input with the file
ParseFile(p) == parseFileLoop(Res(p, File(curPos(p))))

(***************************************************************************)
(* The checker.  A Checker is a record: the file, the diagnostics in the   *)
(* order of addError, and the symbol tables, each a function from the      *)
(* names registered to the declaration.  panicked is set when a method     *)
(* dereferences a nil pointer: the Go runtime panics and the call of Check *)
(* never returns; what the methods would do after that is not done.        *)
(***************************************************************************)
\* make(map[string]...)
EmptyMap == <<>>

\* checker.New
NewChecker(f) ==
    [file |-> f, errors |-> <<>>, enums |-> EmptyMap, entities |-> EmptyMap,
     services |-> EmptyMap, panicked |-> FALSE]

\* The formats of the diagnostics.
\* "duplicate enum: %s"
MsgDuplicateEnum ==
    <<"d", "u", "p", "l", "i", "c", "a", "t", "e", " ", "e", "n", "u", "m",
      ":", " ", "%", "s">>

\* "duplicate entity: %s"
MsgDuplicateEntity ==
    <<"d", "u", "p", "l", "i", "c", "a", "t", "e", " ", "e", "n", "t", "i",
      "t", "y", ":", " ", "%", "s">>

\* "duplicate service: %s"
MsgDuplicateService ==
    <<"d", "u", "p", "l", "i", "c", "a", "t", "e", " ", "s", "e", "r", "v",
      "i", "c", "e", ":", " ", "%", "s">>

\* "duplicate field: %s"
MsgDuplicateField ==
    <<"d", "u", "p", "l", "i", "c", "a", "t", "e", " ", "f", "i", "e", "l",
      "d", ":", " ", "%", "s">>

\* "entity %s has multiple primary keys"
MsgMultiplePrimaryKeys ==
    <<"e", "n", "t", "i", "t", "y", " ", "%", "s", " ", "h", "a", "s", " ",
      "m", "u", "l", "t", "i", "p", "l", "e", " ", "p", "r", "i", "m", "a",
      "r", "y", " ", "k", "e", "y", "s">>

\* "entity %s has no primary key (@pk)"
MsgNoPrimaryKey ==
    <<"e", "n", "t", "i", "t", "y", " ", "%", "s", " ", "h", "a", "s", " ",
      "n", "o", " ", "p", "r", "i", "m", "a", "r", "y", " ", "k", "e", "y",
      " ", "(", "@", "p", "k", ")">>

\* "@table requires a table name"
MsgTableRequiresName ==
    <<"@", "t", "a", "b", "l", "e", " ", "r", "e", "q", "u", "i", "r", "e",
      "s", " ", "a", " ", "t", "a", "b", "l", "e", " ", "n", "a", "m", "e">>

\* "@table argument must be a string"
MsgTableMustBeString ==
    <<"@", "t", "a", "b", "l", "e", " ", "a", "r", "g", "u", "m", "e", "n",
      "t", " ", "m", "u", "s", "t", " ", "b", "e", " ", "a", " ", "s", "t",
      "r", "i", "n", "g">>

\* "unknown backend: %s"
MsgUnknownBackend ==
    <<"u", "n", "k", "n", "o", "w", "n", " ", "b", "a", "c", "k", "e", "n",
      "d", ":", " ", "%", "s">>

\* "unknown entity annotation: @%s"
MsgUnknownEntityAnnotation ==
    <<"u", "n", "k", "n", "o", "w", "n", " ", "e", "n", "t", "i", "t", "y",
      " ", "a", "n", "n", "o", "t", "a", "t", "i", "o", "n", ":", " ", "@",
      "%", "s">>

\* "@default requires a value"
MsgDefaultRequiresValue ==
    <<"@", "d", "e", "f", "a", "u", "l", "t", " ", "r", "e", "q", "u", "i",
      "r", "e", "s", " ", "a", " ", "v", "a", "l", "u", "e">>

\* "@length requires arguments"
MsgLengthRequiresArguments ==
    <<"@", "l", "e", "n", "g", "t", "h", " ", "r", "e", "q", "u", "i", "r",
      "e", "s", " ", "a", "r", "g", "u", "m", "e", "n", "t", "s">>

\* "@pattern requires a regex string"
MsgPatternRequiresRegex ==
    <<"@", "p", "a", "t", "t", "e", "r", "n", " ", "r", "e", "q", "u", "i",
      "r", "e", "s", " ", "a", " ", "r", "e", "g", "e", "x", " ", "s", "t",
      "r", "i", "n", "g">>

\* "@range requires min and max values"
MsgRangeRequiresMinMax ==
    <<"@", "r", "a", "n", "g", "e", " ", "r", "e", "q", "u", "i", "r", "e",
      "s", " ", "m", "i", "n", " ", "a", "n", "d", " ", "m", "a", "x", " ",
      "v", "a", "l", "u", "e", "s">>

\* "@fk requires Entity.field reference"
MsgFkRequiresReference ==
    <<"@", "f", "k", " ", "r", "e", "q", "u", "i", "r", "e", "s", " ", "E",
      "n", "t", "i", "t", "y", ".", "f", "i", "e", "l", "d", " ", "r", "e",
      "f", "e", "r", "e", "n", "c", "e">>

\* "@fk must be in format Entity.field"
MsgFkFormat ==
    <<"@", "f", "k", " ", "m", "u", "s", "t", " ", "b", "e", " ", "i", "n",
      " ", "f", "o", "r", "m", "a", "t", " ", "E", "n", "t", "i", "t", "y",
      ".", "f", "i", "e", "l", "d">>

\* "unknown entity in @fk: %s"
MsgFkUnknownEntity ==
    <<"u", "n", "k", "n", "o", "w", "n", " ", "e", "n", "t", "i", "t", "y",
      " ", "i", "n", " ", "@", "f", "k", ":", " ", "%", "s">>

\* "@ondelete requires action (cascade, setnull, restrict)"
MsgOndeleteRequiresAction ==
    <<"@", "o", "n", "d", "e", "l", "e", "t", "e", " ", "r", "e", "q", "u",
      "i", "r", "e", "s", " ", "a", "c", "t", "i", "o", "n", " ", "(", "c",
      "a", "s", "c", "a", "d", "e", ",", " ", "s", "e", "t", "n", "u", "l",
      "l", ",", " ", "r", "e", "s", "t", "r", "i", "c", "t", ")">>

\* "unknown field annotation: @%s"
MsgUnknownFieldAnnotation ==
    <<"u", "n", "k", "n", "o", "w", "n", " ", "f", "i", "e", "l", "d", " ",
      "a", "n", "n", "o", "t", "a", "t", "i", "o", "n", ":", " ", "@", "%",
      "s">>

\* "primary key cannot be optional"
MsgPrimaryKeyOptional ==
    <<"p", "r", "i", "m", "a", "r", "y", " ", "k", "e", "y", " ", "c", "a",
      "n", "n", "o", "t", " ", "b", "e", " ", "o", "p", "t", "i", "o", "n",
      "a", "l">>

\* "unknown type: %s"
MsgUnknownType ==
    <<"u", "n", "k", "n", "o", "w", "n", " ", "t", "y", "p", "e", ":", " ",
      "%", "s">>

\* "unknown field in ORDER BY: %s"
MsgUnknownOrderByField ==
    <<"u", "n", "k", "n", "o", "w", "n", " ", "f", "i", "e", "l", "d", " ",
      "i", "n", " ", "O", "R", "D", "E", "R", " ", "B", "Y", ":", " ", "%",
      "s">>

\* "unknown identifier: %s"
MsgUnknownIdentifier ==
    <<"u", "n", "k", "n", "o", "w", "n", " ", "i", "d", "e", "n", "t", "i",
      "f", "i", "e", "r", ":", " ", "%", "s">>

\* "unknown RPC type: %s"
MsgUnknownRpcType ==
    <<"u", "n", "k", "n", "o", "w", "n", " ", "R", "P", "C", " ", "t", "y",
      "p", "e", ":", " ", "%", "s">>

\* builtinTypes of checkType
BuiltinTypes ==
    {<<"s", "t", "r", "i", "n", "g">>, <<"i", "n", "t", "3", "2">>, <<"i",
     "n", "t", "6", "4">>, <<"f", "l", "o", "a", "t">>, <<"d", "o", "u",
     "b", "l", "e">>, <<"b", "o", "o", "l">>, <<"b", "y", "t", "e", "s">>,
     <<"t", "i", "m", "e", "s", "t", "a", "m", "p">>}

\* knownFunctions of checkExpr
KnownFunctions ==
    {<<"N", "O", "W">>, <<"C", "O", "U", "N", "T">>, <<"S", "U", "M">>,
     <<"A", "V", "G">>, <<"M", "I", "N">>, <<"M", "A", "X">>, <<"C", "O",
     "A", "L", "E", "S", "C", "E">>}

\* knownTypes of checkRpcType
KnownRpcTypes ==
    {<<"P", "u", "s", "h", "R", "e", "s", "u", "l", "t">>, <<"R", "e", "s",
     "u", "l", "t">>, <<"E", "m", "p", "t", "y">>}

\* validBackends of isValidBackend
ValidBackends ==
    {<<"s", "q", "l", "i", "t", "e">>, <<"p", "o", "s", "t", "g", "r", "e",
     "s">>, <<"c", "e", "r", "a", "m", "i", "c">>, <<"m", "y", "s", "q",
     "l">>}

\* case "pk", "required", "indexed", "unique" of checkFieldAnnotations
PlainFieldAnnotations ==
    {<<"p", "k">>, <<"r", "e", "q", "u", "i", "r", "e", "d">>, <<"i", "n",
     "d", "e", "x", "e", "d">>, <<"u", "n", "i", "q", "u", "e">>}

NameTable == <<"t", "a", "b", "l", "e">>

NameBackends == <<"b", "a", "c", "k", "e", "n", "d", "s">>

NameDefault == <<"d", "e", "f", "a", "u", "l", "t">>

NameLength == <<"l", "e", "n", "g", "t", "h">>

NamePattern == <<"p", "a", "t", "t", "e", "r", "n">>

NameRange == <<"r", "a", "n", "g", "e">>

NameFk == <<"f", "k">>

NameOndelete == <<"o", "n", "d", "e", "l", "e", "t", "e">>

NamePk == <<"p", "k">>

SuffixRequest == <<"R", "e", "q", "u", "e", "s", "t">>

SuffixResponse == <<"R", "e", "s", "p", "o", "n", "s", "e">>

\* the offset of the first %s of format at or after offset from, 0 for none
FirstVerb(format, from) ==
    LET verbs == {i \in from..(Len(format) - 1) : format[i] = "%" /\ format[i + 1] = "s"}
    IN IF verbs = {} THEN 0 ELSE CHOOSE i \in verbs : \A j \in verbs : i <= j

\* the output for format from offset from on: verb is the offset of its
\* first %s, which takes the first of args
RECURSIVE sprintfFrom(_, _, _, _)
sprintfFrom(format, args, from, verb) ==
    IF verb = 0 THEN SubSeq(format, from, Len(format))
    ELSE SubSeq(format, from, verb - 1) \o args[1]
            \o sprintfFrom(format, Tail(args), verb + 2, FirstVerb(format, verb + 2))

\* fmt.Sprintf for formats whose only verb is %s
Sprintf(format, args) == sprintfFrom(format, args, 1, FirstVerb(format, 1))

\* strings.HasSuffix
HasSuffix(s, suffix) ==
    /\ Len(s) >= Len(suffix)
    /\ SubSeq(s, Len(s) - Len(suffix) + 1, Len(s)) = suffix

\* strings.Contains
Contains(s, substr) ==
    \E i \in 0..(Len(s) - Len(substr)) : SubSeq(s, i + 1, i + Len(substr)) = substr

\* strings.Split(s, sep) for a separator of one character: part is the
\* part being read
RECURSIVE splitFrom(_, _, _)
splitFrom(s, sep, part) ==
    IF s = <<>> THEN <<part>>
    ELSE IF s[1] = sep THEN <<part>> \o splitFrom(Tail(s), sep, <<>>)
    ELSE splitFrom(Tail(s), sep, Append(part, s[1]))

Split(s, sep) == splitFrom(s, sep, <<>>)

\* Error{Position: node, Message: ...}: the node is known by its position
Error(node, message) == [Position |-> node.Position, Message |-> message]

\* the runtime panic of a nil pointer dereference
nilDereference(c) == [c EXCEPT !.panicked = TRUE]

addError(c, node, format, args) ==
    IF c.panicked THEN c
    ELSE [c EXCEPT !.errors = Append(@, Error(node, Sprintf(format, args)))]

\* m[name] = decl
MapPut(m, name, decl) ==
    [n \in DOMAIN m \cup {name} |-> IF n = name THEN decl ELSE m[n]]

\* _, exists := m[name]
Exists(m, name) == name \in DOMAIN m

\* one iteration of a loop of buildSymbolTables over the declarations of
\* the table t, with the format of its diagnostic
register(c, t, decl, format) ==
    IF c.panicked THEN c
    ELSE [(IF Exists(c[t], decl.Name) THEN addError(c, decl, format, <<decl.Name>>) ELSE c)
            EXCEPT ![t] = MapPut(@, decl.Name, decl)]

RECURSIVE registerAll(_, _, _, _, _)
registerAll(c, t, decls, format, i) ==
    IF i > Len(decls) THEN c
    ELSE registerAll(register(c, t, decls[i], format), t, decls, format, i + 1)

buildSymbolTables(c) ==
    registerAll(
        registerAll(
            registerAll(c, "enums", c.file.Enums, MsgDuplicateEnum, 1),
            "entities", c.file.Entities, MsgDuplicateEntity, 1),
        "services", c.file.Services, MsgDuplicateService, 1)

\* ast.go: GetAnnotation(name) != nil
HasAnnotation(node, name) ==
    \E i \in 1..Len(node.Annotations) : node.Annotations[i].Name = name

IsPrimaryKey(field) == HasAnnotation(field, NamePk)

isValidBackend(backend) == backend \in ValidBackends

\* v.(string)
IsString(v) == v.vtype = "string"

\* the loop of case "backends"
RECURSIVE checkBackends(_, _, _)
checkBackends(c, ann, i) ==
    IF i > Len(ann.Args) THEN c
    ELSE checkBackends(
            IF IsString(ann.Args[i].Value) /\ ~isValidBackend(ann.Args[i].Value.str)
            THEN addError(c, ann, MsgUnknownBackend, <<ann.Args[i].Value.str>>)
            ELSE c,
            ann, i + 1)

\* the switch of checkEntityAnnotations
checkEntityAnnotation(c, ann) ==
    IF ann.Name = NameTable
    THEN IF Len(ann.Args) = 0
         THEN addError(c, ann, MsgTableRequiresName, <<>>)
         ELSE IF ~IsString(ann.Args[1].Value)
         THEN addError(c, ann, MsgTableMustBeString, <<>>)
         ELSE c
    ELSE IF ann.Name = NameBackends
    THEN checkBackends(c, ann, 1)
    ELSE addError(c, ann, MsgUnknownEntityAnnotation, <<ann.Name>>)

RECURSIVE checkEntityAnnotationsFrom(_, _, _)
checkEntityAnnotationsFrom(c, entity, i) ==
    IF i > Len(entity.Annotations) THEN c
    ELSE checkEntityAnnotationsFrom(checkEntityAnnotation(c, entity.Annotations[i]),
                                    entity, i + 1)

checkEntityAnnotations(c, entity) == checkEntityAnnotationsFrom(c, entity, 1)

\* case "fk" with an argument that is a string: parts is strings.Split(ref, ".")
checkFkParts(c, ann, parts) ==
    IF Len(parts) # 2
    THEN addError(c, ann, MsgFkFormat, <<>>)
    ELSE IF ~Exists(c.entities, parts[1])
    THEN addError(c, ann, MsgFkUnknownEntity, <<parts[1]>>)
    ELSE c

\* if len(ann.Args) == 0 { c.addError(ann, format) }
requireArgs(c, ann, n, format) ==
    IF Len(ann.Args) < n THEN addError(c, ann, format, <<>>) ELSE c

\* the switch of checkFieldAnnotations
checkFieldAnnotation(c, ann) ==
    IF ann.Name \in PlainFieldAnnotations THEN c
    ELSE IF ann.Name = NameDefault THEN requireArgs(c, ann, 1, MsgDefaultRequiresValue)
    ELSE IF ann.Name = NameLength THEN requireArgs(c, ann, 1, MsgLengthRequiresArguments)
    ELSE IF ann.Name = NamePattern THEN requireArgs(c, ann, 1, MsgPatternRequiresRegex)
    ELSE IF ann.Name = NameRange THEN requireArgs(c, ann, 2, MsgRangeRequiresMinMax)
    ELSE IF ann.Name = NameFk
    THEN IF Len(ann.Args) = 0
         THEN addError(c, ann, MsgFkRequiresReference, <<>>)
         ELSE IF IsString(ann.Args[1].Value)
         THEN checkFkParts(c, ann, Split(ann.Args[1].Value.str, "."))
         ELSE c
    ELSE IF ann.Name = NameOndelete THEN requireArgs(c, ann, 1, MsgOndeleteRequiresAction)
    ELSE addError(c, ann, MsgUnknownFieldAnnotation, <<ann.Name>>)

RECURSIVE checkFieldAnnotationsFrom(_, _, _)
checkFieldAnnotationsFrom(c, field, i) ==
    IF i > Len(field.Annotations) THEN c
    ELSE checkFieldAnnotationsFrom(checkFieldAnnotation(c, field.Annotations[i]),
                                   field, i + 1)

\* if field.IsPrimaryKey() && field.Type.Optional { ... }
checkPrimaryKeyOptional(c, field) ==
    IF c.panicked \/ ~IsPrimaryKey(field) THEN c
    ELSE IF field.Type = <<>> THEN nilDereference(c)
    ELSE IF field.Type[1].Optional THEN addError(c, field, MsgPrimaryKeyOptional, <<>>)
    ELSE c

checkFieldAnnotations(c, field) ==
    checkPrimaryKeyOptional(checkFieldAnnotationsFrom(c, field, 1), field)

\* typeRef is a pointer: <<>> is nil
checkType(c, typeRef) ==
    IF c.panicked THEN c
    ELSE IF typeRef = <<>> THEN nilDereference(c)
    ELSE IF typeRef[1].Name \in BuiltinTypes THEN c
    ELSE IF Exists(c.enums, typeRef[1].Name) THEN c
    ELSE IF Exists(c.entities, typeRef[1].Name) THEN c
    ELSE addError(c, typeRef[1], MsgUnknownType, <<typeRef[1].Name>>)

\* the switch of checkExpr; the arguments of a call are checked in order
RECURSIVE checkExpr(_, _, _)
RECURSIVE checkArgs(_, _, _, _)
checkArgs(c, args, validIdents, i) ==
    IF i > Len(args) THEN c
    ELSE checkArgs(checkExpr(c, args[i], validIdents), args, validIdents, i + 1)

checkExpr(c, e, validIdents) ==
    IF e.kind = "BinaryExpr"
    THEN checkArgs(c, <<e.Left, e.Right>>, validIdents, 1)
    ELSE IF e.kind = "UnaryExpr" \/ e.kind = "IsNullExpr"
    THEN checkArgs(c, <<e.Operand>>, validIdents, 1)
    ELSE IF e.kind = "IdentExpr"
    THEN IF e.Name \notin validIdents /\ e.Name \notin KnownFunctions
         THEN addError(c, e, MsgUnknownIdentifier, <<e.Name>>)
         ELSE c
    ELSE IF e.kind = "CallExpr"
    THEN checkArgs(c, e.Args, validIdents, 1)
    ELSE IF e.kind = "ParenExpr"
    THEN checkArgs(c, <<e.Inner>>, validIdents, 1)
    ELSE c

\* if expr != nil { c.checkExpr(expr, validIdents) }
checkOptionalExpr(c, expr, validIdents) ==
    IF expr = <<>> THEN c ELSE checkExpr(c, expr[1], validIdents)

\* the names of a list of declarations
Names(decls) == {decls[i].Name : i \in 1..Len(decls)}

\* the loop of checkQuery over the parameters
RECURSIVE checkParamTypes(_, _, _)
checkParamTypes(c, ps, i) ==
    IF i > Len(ps) THEN c
    ELSE checkParamTypes(checkType(c, ps[i].Type), ps, i + 1)

\* the loop of checkQuery over the ORDER BY fields
RECURSIVE checkOrderBy(_, _, _, _)
checkOrderBy(c, orderBy, validIdents, i) ==
    IF i > Len(orderBy) THEN c
    ELSE checkOrderBy(
            IF orderBy[i].Field \notin validIdents
            THEN addError(c, orderBy[i], MsgUnknownOrderByField, <<orderBy[i].Field>>)
            ELSE c,
            orderBy, validIdents, i + 1)

\* checkQuery once validIdents is built
checkQueryIn(c, q, validIdents) ==
    checkOptionalExpr(
        checkOrderBy(
            checkOptionalExpr(checkParamTypes(c, q.Params, 1), q.Where, validIdents),
            q.OrderBy, validIdents, 1),
        q.Limit, validIdents)

checkQuery(c, entity, q) ==
    checkQueryIn(c, q, Names(entity.Fields) \cup Names(q.Params))

RECURSIVE checkQueries(_, _, _)
checkQueries(c, entity, i) ==
    IF i > Len(entity.Queries) THEN c
    ELSE checkQueries(checkQuery(c, entity, entity.Queries[i]), entity, i + 1)

\* the locals of checkEntity with the checker
FieldLoop(c) == [c |-> c, fieldNames |-> {}, hasPrimaryKey |-> FALSE]

\* if fieldNames[field.Name] { ... }; fieldNames[field.Name] = true
noteFieldName(s, field) ==
    [s EXCEPT !.c = IF field.Name \in s.fieldNames
                    THEN addError(@, field, MsgDuplicateField, <<field.Name>>)
                    ELSE @,
              !.fieldNames = @ \cup {field.Name}]

\* c.checkType(field.Type); c.checkFieldAnnotations(field)
checkFieldItself(s, field) ==
    [s EXCEPT !.c = checkFieldAnnotations(checkType(@, field.Type), field)]

\* if field.IsPrimaryKey() { ... }
trackPrimaryKey(s, entity, field) ==
    IF ~IsPrimaryKey(field) THEN s
    ELSE [s EXCEPT !.c = IF s.hasPrimaryKey
                         THEN addError(@, field, MsgMultiplePrimaryKeys, <<entity.Name>>)
                         ELSE @,
                   !.hasPrimaryKey = TRUE]

RECURSIVE checkFields(_, _, _)
checkFields(s, entity, i) ==
    IF i > Len(entity.Fields) THEN s
    ELSE checkFields(
            trackPrimaryKey(checkFieldItself(noteFieldName(s, entity.Fields[i]),
                                             entity.Fields[i]),
                            entity, entity.Fields[i]),
            entity, i + 1)

\* if !hasPrimaryKey && len(entity.Fields) > 0 { ... }
warnNoPrimaryKey(s, entity) ==
    IF ~s.hasPrimaryKey /\ Len(entity.Fields) > 0
    THEN addError(s.c, entity, MsgNoPrimaryKey, <<entity.Name>>)
    ELSE s.c

checkEntity(c, entity) ==
    checkQueries(
        warnNoPrimaryKey(checkFields(FieldLoop(checkEntityAnnotations(c, entity)), entity, 1),
                         entity),
        entity, 1)

\* rpcType is a pointer: <<>> is nil
checkRpcType(c, rpcType) ==
    IF c.panicked THEN c
    ELSE IF rpcType = <<>> THEN nilDereference(c)
    ELSE IF Exists(c.entities, rpcType[1].Name) THEN c
    ELSE IF rpcType[1].Name \in KnownRpcTypes THEN c
    ELSE IF HasSuffix(rpcType[1].Name, SuffixRequest)
            \/ HasSuffix(rpcType[1].Name, SuffixResponse)
    THEN c
    ELSE IF \E name \in DOMAIN c.entities : Contains(rpcType[1].Name, name) THEN c
    ELSE addError(c, rpcType[1], MsgUnknownRpcType, <<rpcType[1].Name>>)

RECURSIVE checkMethods(_, _, _)
checkMethods(c, svc, i) ==
    IF i > Len(svc.Methods) THEN c
    ELSE checkMethods(
            checkRpcType(checkRpcType(c, svc.Methods[i].RequestType),
                         svc.Methods[i].ResponseType),
            svc, i + 1)

checkService(c, svc) == checkMethods(c, svc, 1)

RECURSIVE checkEntities(_, _)
checkEntities(c, i) ==
    IF i > Len(c.file.Entities) THEN c
    ELSE checkEntities(checkEntity(c, c.file.Entities[i]), i + 1)

RECURSIVE checkServices(_, _)
checkServices(c, i) ==
    IF i > Len(c.file.Services) THEN c
    ELSE checkServices(checkService(c, c.file.Services[i]), i + 1)

\* the method Check: the checker after the call; the call returns its
\* errors unless it panicked
CheckMethod(c) == checkServices(checkEntities(buildSymbolTables(c), 1), 1)

\* the function Check(file)
Check(f) == CheckMethod(NewChecker(f))

(***************************************************************************)
(* The query compiler as a state machine: a query is given, and the two    *)
(* entry points are called on its WHERE tree.                              *)
(***************************************************************************)
start_date == <<"s", "t", "a", "r", "t", "_", "d", "a", "t", "e">>
after == <<"a", "f", "t", "e", "r">>
before == <<"b", "e", "f", "o", "r", "e">>
Title == <<"T", "i", "t", "l", "e">>
NOW == <<"N", "O", "W">>
COUNT == <<"C", "O", "U", "N", "T">>
OpGE == <<">", "=">>
OpLT == <<"<">>
OpAND == <<"A", "N", "D">>
OpNOT == <<"N", "O", "T">>
OpMINUS == <<"-">>

\* all sequences over S of length at most n
RECURSIVE SeqsUpTo(_, _)
SeqsUpTo(S, n) ==
    IF n = 0 THEN {<<>>}
    ELSE LET shorter == SeqsUpTo(S, n - 1)
         IN shorter \cup {Append(s, c) : s \in shorter, c \in S}

TreeLeaves == {IdentExpr(after), IdentExpr(Title), IntLit(42), StringLit(<<"'">>)}
TreeCalls == {NOW, COUNT}
TreeBinOps == {OpGE, OpAND}

\* the expression trees with exactly n nodes over the leaves above
RECURSIVE TreesOfSize(_)
TreesOfSize(n) ==
    IF n = 1 THEN TreeLeaves \cup {CallExpr(f, <<>>) : f \in TreeCalls}
    ELSE LET sub == TreesOfSize(n - 1)
         IN {UnaryExpr(op, x) : op \in {OpNOT, OpMINUS}, x \in sub}
            \cup {IsNullExpr(x, b) : x \in sub, b \in BOOLEAN}
            \cup {ParenExpr(x) : x \in sub}
            \cup {CallExpr(f, <<x>>) : f \in TreeCalls, x \in sub}
            \cup UNION {
                   {BinaryExpr(op, l, r) :
                        op \in TreeBinOps, l \in TreesOfSize(i), r \in TreesOfSize(n - 1 - i)}
                   \cup {CallExpr(f, <<l, r>>) :
                        f \in TreeCalls, l \in TreesOfSize(i), r \in TreesOfSize(n - 1 - i)}
                   : i \in 1..(n - 2)}

LiteralExprs ==
    {StringLit(s) : s \in SeqsUpTo({"a", "'", "?"}, MaxStrLen)}
    \cup {IntLit(n) : n \in {0, 7, -42, 1000}}
    \cup {FloatLit(u) : u \in {3140000, -500000}}
    \cup {BoolLit(b) : b \in BOOLEAN}
    \cup {NilLit}

\* where start_date >= after AND start_date < before
ExampleWhere ==
    BinaryExpr(OpAND,
               BinaryExpr(OpGE, IdentExpr(start_date), IdentExpr(after)),
               BinaryExpr(OpLT, IdentExpr(start_date), IdentExpr(before)))

NowCall == CallExpr(NOW, <<>>)

\* where start_date >= NOW()
UpcomingWhere == BinaryExpr(OpGE, IdentExpr(start_date), NowCall)

WhereExprs ==
    UNION {TreesOfSize(n) : n \in 1..MaxNodes}
    \cup LiteralExprs \cup {ExampleWhere, UpcomingWhere}

ParamLists == {<<>>, <<after>>, <<after, before>>}

\* the variables of a part of the program that a specification leaves out
CodegenIdle ==
    /\ query = [Params |-> <<>>, Where |-> NilLit]
    /\ called = {}
    /\ plain = <<>>
    /\ sql = <<>>
    /\ params = <<>>
    /\ calls = <<>>

LexerIdle == lexer = New(<<>>) /\ emitted = <<>>

RuntimeIdle ==
    /\ runtime = <<>>
    /\ connections = <<>>
    /\ threads = <<>>
    /\ returned = <<>>

TokenizeIdle == tokenized = <<>>

CheckerIdle == checker = NewChecker(File(NoPos)) /\ checked = <<>> /\ rendered = <<>>

ParserIdle ==
    /\ source = <<>>
    /\ parser = NewFromString(<<>>)
    /\ file = File(NoPos)
    /\ parsed = <<>>

InitSQL ==
    /\ query \in {[Params |-> ps, Where |-> e] : ps \in ParamLists, e \in WhereExprs}
    /\ called = {}
    /\ plain = <<>>
    /\ sql = <<>>
    /\ params = <<>>
    /\ calls = <<>>
    /\ LexerIdle
    /\ RuntimeIdle
    /\ ParserIdle
    /\ TokenizeIdle
    /\ CheckerIdle

CallExprToSQL ==
    /\ "ExprToSQL" \notin called
    /\ plain' = ExprToSQL(query.Where)
    /\ called' = called \cup {"ExprToSQL"}
    /\ UNCHANGED <<rtVars, query, sql, params, calls, lexVars, parseVars, tokVars, checkVars>>

CallExprToSQLWithParams ==
    /\ "ExprToSQLWithParams" \notin called
    /\ LET r == ExprToSQLWithParams(query.Where)
       IN /\ sql' = r.sql
          /\ params' = r.params
    /\ called' = called \cup {"ExprToSQLWithParams"}
    /\ UNCHANGED <<rtVars, query, plain, calls, lexVars, parseVars, tokVars, checkVars>>

NextSQL == CallExprToSQL \/ CallExprToSQLWithParams

SpecSQL == InitSQL /\ [][NextSQL]_vars

(***************************************************************************)
(* Calls of ExprToSQLWithParams in a row, on the tree of the query and on  *)
(* another tree.  The variable params holds the list that the last call    *)
(* returned; each call declares its own list.                              *)
(***************************************************************************)
\* mutant of ParamsAtEntry: the list of the last call is kept
ParamsAtEntry_Kept(last) == last

\* var params []string: the list of a call starts as the nil slice, whatever
\* list the last call returned
ParamsAtEntry(last) == <<>>

\* the prefixes given as paramPrefix
Prefixes == {<<>>, <<":">>}

\* the trees given to the calls: that of the query, and ExampleWhere
CalledExprs == {query.Where, ExampleWhere}

\* the trees of the queries whose calls are repeated
RepeatedExprs ==
    UNION {TreesOfSize(n) : n \in 1..(MaxNodes - 1)} \cup {UpcomingWhere}

InitCalls ==
    /\ query \in {[Params |-> <<>>, Where |-> e] : e \in RepeatedExprs}
    /\ called = {}
    /\ plain = <<>>
    /\ sql = <<>>
    /\ params = <<>>
    /\ calls = <<>>
    /\ LexerIdle
    /\ RuntimeIdle
    /\ ParserIdle
    /\ TokenizeIdle
    /\ CheckerIdle

\* sql, params := ExprToSQLWithParams(e, prefix): the call reads the tree
\* and assigns to its own list only
CallAgain ==
    /\ Len(calls) < MaxCalls
    /\ \E e \in CalledExprs : \E prefix \in Prefixes :
          \E r \in {exprToSQLWithParamsInternal(e, ParamsAtEntry(params))} :
             /\ sql' = r.sql
             /\ params' = r.params
             /\ calls' = Append(calls, [expr |-> e, paramPrefix |-> prefix,
                                        sql |-> r.sql, params |-> r.params])
    /\ called' = called \cup {"ExprToSQLWithParams"}
    /\ UNCHANGED <<rtVars, query, plain, lexVars, parseVars, tokVars, checkVars>>

NextCalls == CallAgain

SpecCalls == InitCalls /\ [][NextCalls]_vars

(***************************************************************************)
(* Claims about the query compiler.                                        *)
(***************************************************************************)
Declared == {query.Params[i] : i \in 1..Len(query.Params)}

ExampleSQL ==
    <<"s", "t", "a", "r", "t", "_", "d", "a", "t", "e", " ", ">", "=", " ", "?",
      " ", "A", "N", "D", " ",
      "s", "t", "a", "r", "t", "_", "d", "a", "t", "e", " ", "<", " ", "?">>

\* C1: an identifier becomes a `?` placeholder only when it is a declared
\* parameter of the query, every other identifier is emitted verbatim; the
\* WHERE tree of `start_date >= after AND start_date < before` with the
\* parameters after, before gives `start_date >= ? AND start_date < ?` and
\* the list [after, before].
C1_PlaceholderOnlyForDeclaredParams ==
    "ExprToSQLWithParams" \in called =>
        /\ \A i \in 1..Len(params) : params[i] \in Declared
        /\ (query = [Params |-> <<after, before>>, Where |-> ExampleWhere]
                => sql = ExampleSQL /\ params = <<after, before>>)

\* the `?` of an SQL text that stand outside its single-quoted literals
RECURSIVE CountPlaceholders(_, _)
CountPlaceholders(text, inQuote) ==
    IF text = <<>> THEN 0
    ELSE IF Head(text) = "'" THEN CountPlaceholders(Tail(text), ~inQuote)
    ELSE (IF Head(text) = "?" /\ ~inQuote THEN 1 ELSE 0)
         + CountPlaceholders(Tail(text), inQuote)

\* C2: for every expression tree the SQL text holds exactly as many `?`
\* placeholders as the returned parameter list has names (calls, and calls
\* to NOW that carry arguments, included).
C2_PlaceholdersMatchParams ==
    "ExprToSQLWithParams" \in called =>
        CountPlaceholders(sql, FALSE) = Len(params)

RECURSIVE SQLLiteralBody(_, _)
SQLLiteralBody(text, acc) ==
    IF text = <<>> THEN [ok |-> FALSE, value |-> acc]
    ELSE IF Head(text) # "'" THEN SQLLiteralBody(Tail(text), Append(acc, Head(text)))
    ELSE IF Len(text) = 1 THEN [ok |-> TRUE, value |-> acc]
    ELSE IF text[2] = "'" THEN SQLLiteralBody(Tail(Tail(text)), Append(acc, "'"))
    ELSE [ok |-> FALSE, value |-> acc]

SQLLiteralValue(text) ==
    IF text = <<>> \/ Head(text) # "'" THEN [ok |-> FALSE, value |-> <<>>]
    ELSE SQLLiteralBody(Tail(text), <<>>)

\* reading a text as a decimal integer
RECURSIVE ParseNat(_, _)
ParseNat(text, acc) ==
    IF text = <<>> THEN acc
    ELSE ParseNat(Tail(text), acc * 10 + DigitValue(Head(text)))

IsDecimal(text) ==
    LET d == IF text # <<>> /\ Head(text) = "-" THEN Tail(text) ELSE text
    IN d # <<>> /\ \A i \in 1..Len(d) : d[i] \in Digits

ParseDecimal(text) ==
    IF Head(text) = "-" THEN -ParseNat(Tail(text), 0) ELSE ParseNat(text, 0)

\* C4: a string literal is lowered to one single-quoted SQL literal that
\* denotes the value (every quote doubled, so no value ends it early), an
\* integer to its decimal text, a bool to 1 or 0; ExprToSQL and
\* ExprToSQLWithParams give the same text.
C4_LiteralsLowered ==
    (called = {"ExprToSQL", "ExprToSQLWithParams"} /\ query.Where.kind = "LiteralExpr") =>
        LET e == query.Where
        IN /\ plain = sql
           /\ (e.vtype = "string" => SQLLiteralValue(sql) = [ok |-> TRUE, value |-> e.str])
           /\ (e.vtype = "int64" => IsDecimal(sql) /\ ParseDecimal(sql) = e.int)
           /\ (e.vtype = "bool" => sql = (IF e.bool THEN <<"1">> ELSE <<"0">>))

C4_Witness ==
    /\ called = {"ExprToSQL", "ExprToSQLWithParams"}
    /\ query.Where = StringLit(<<"a", "'">>)
    /\ sql = <<"'", "a", "'", "'", "'">>

(***************************************************************************)
(* The lexer as a state machine: a Lexer is made for an input string and   *)
(* NextToken is called on it again and again, past the end of the input    *)
(* too.  emitted records each call: the token returned, the offset at      *)
(* which the token starts (where skipWhitespaceAndComments stopped) and    *)
(* l.pos when the call returned.                                           *)
(***************************************************************************)
LexAlphabet == {"a", "e", "1", "-", ".", " ", "NUL"}

\* `a -1` and `a - 1`
LexExamples == {<<"a", " ", "-", "1">>, <<"a", " ", "-", " ", "1">>}

LexInputs == SeqsUpTo(LexAlphabet, MaxInputLen) \cup LexExamples

InitLex ==
    /\ lexer \in {New(input) : input \in LexInputs}
    /\ emitted = <<>>
    /\ CodegenIdle
    /\ RuntimeIdle
    /\ ParserIdle
    /\ TokenizeIdle
    /\ CheckerIdle

\* the record of one call: the token starts at offset from, r is the result
CallRecord(from, r) ==
    [tok |-> r.tok, from |-> from, to |-> r.l.pos, line |-> r.l.line,
     column |-> r.l.column]

CallNextToken ==
    /\ Len(emitted) < Len(lexer.input) + MaxCallsAtEnd
    /\ lexer' = NextToken(lexer).l
    /\ emitted' = Append(emitted,
                         CallRecord(skipWhitespaceAndComments(lexer).pos,
                                    NextToken(lexer)))
    /\ UNCHANGED <<rtVars, cgVars, parseVars, tokVars, checkVars>>

NextLex == CallNextToken

SpecLex == InitLex /\ [][NextLex]_vars

(***************************************************************************)
(* Claims about the lexer.                                                 *)
(***************************************************************************)
\* C5: once NextToken has returned an end-of-input token, every later call
\* on the same Lexer returns an end-of-input token again and leaves the
\* cursor, the line and the column where they were, for every input string.
C5_NextTokenIdempotentAtEOF ==
    \A i \in 1..Len(emitted) : \A j \in (i + 1)..Len(emitted) :
        emitted[i].tok.Type = "EOF" =>
            /\ emitted[j].tok.Type = "EOF"
            /\ emitted[j].to = emitted[i].to
            /\ emitted[j].line = emitted[i].line
            /\ emitted[j].column = emitted[i].column

\* the character of the input at a byte offset (from 0), "NUL" past the end
CharAt(input, off) == IF off < Len(input) THEN input[off + 1] ELSE "NUL"

NumberTypes == {"INT", "FLOAT"}

\* the offsets of the input that the literal of a number token spans
NumberSpan(e) == e.from..(e.from + Len(e.tok.Literal) - 1)

\* lexing is over: the last call returned the end-of-input token
LexDone == emitted # <<>> /\ emitted[Len(emitted)].tok.Type = "EOF"

TokenTypes == [i \in 1..Len(emitted) |-> emitted[i].tok.Type]

TokenLiterals == [i \in 1..Len(emitted) |-> emitted[i].tok.Literal]

\* a number literal reads as a float: a point with a digit after it, or an
\* exponent letter
LooksFloat(lit) ==
    \E i \in 1..Len(lit) :
        \/ lit[i] \in {"e", "E"}
        \/ lit[i] = "." /\ i < Len(lit) /\ lit[i + 1] \in Digits

\* the parts of C6: a `-` inside a number has a digit after it
C6_MinusInsideNumberHasDigit ==
    \A i \in 1..Len(emitted) :
        emitted[i].tok.Type \in NumberTypes =>
            \A off \in NumberSpan(emitted[i]) :
                CharAt(lexer.input, off) = "-" => CharAt(lexer.input, off + 1) \in Digits

\* every `-` of the input with a digit after it ends up inside a number
C6_MinusBeforeDigitIsAbsorbed ==
    LexDone /\ "NUL" \notin {lexer.input[k] : k \in 1..Len(lexer.input)} =>
        \A off \in 0..(Len(lexer.input) - 1) :
            CharAt(lexer.input, off) = "-" /\ CharAt(lexer.input, off + 1) \in Digits =>
                \E i \in 1..Len(emitted) :
                    emitted[i].tok.Type \in NumberTypes /\ off \in NumberSpan(emitted[i])

\* a MINUS token has no digit after it, FLOAT is told from INT by the
\* literal, and the two examples lex as stated
C6_ExamplesAndClassification ==
    /\ \A i \in 1..Len(emitted) :
          /\ emitted[i].tok.Type = "MINUS" =>
                CharAt(lexer.input, emitted[i].from + 1) \notin Digits
          /\ emitted[i].tok.Type \in NumberTypes =>
                (emitted[i].tok.Type = "FLOAT") = LooksFloat(emitted[i].tok.Literal)
    /\ LexDone /\ lexer.input = <<"a", " ", "-", "1">> =>
          /\ SubSeq(TokenTypes, 1, 3) = <<"IDENT", "INT", "EOF">>
          /\ SubSeq(TokenLiterals, 1, 2) = <<<<"a">>, <<"-", "1">>>>
    /\ LexDone /\ lexer.input = <<"a", " ", "-", " ", "1">> =>
          /\ SubSeq(TokenTypes, 1, 4) = <<"IDENT", "MINUS", "INT", "EOF">>
          /\ SubSeq(TokenLiterals, 1, 3) = <<<<"a">>, <<"-">>, <<"1">>>>

\* C6: a `-` is absorbed into a number literal exactly when the character
\* right after it is a digit, whatever came before it: a MINUS token is
\* never followed by a digit, a `-` inside a number has a digit after it,
\* and every `-` of the input with a digit after it ends up inside a number;
\* `a -1` gives IDENT a, INT -1 and `a - 1` gives IDENT a, MINUS, INT 1; a
\* number is FLOAT exactly when it has a point followed by a digit or an
\* exponent, INT otherwise.
C6_MinusAbsorbedIffDigitFollows ==
    /\ C6_MinusInsideNumberHasDigit
    /\ C6_MinusBeforeDigitIsAbsorbed
    /\ C6_ExamplesAndClassification

(***************************************************************************)
(* The expression parser as a state machine: a Parser is made for the text *)
(* of an expression and parseExpression is called on it.  The text is      *)
(* printed from a tree of the expression grammar, which source keeps with  *)
(* the way it was printed.                                                 *)
(***************************************************************************)
OrOps == {<<"O", "R">>}
AndOps == {<<"A", "N", "D">>}
CompareOpTexts == {<<"=">>, <<"L", "I", "K", "E">>}
AddOpTexts == {<<"-">>, <<"|", "|">>}
MulOpTexts == {<<"*">>}
UnaryOpTexts == {<<"N", "O", "T">>, <<"-">>}
ExprLeaves == {IdentExpr(<<"a">>), IntLit(-1)}

\* the binding power of the grammar, loosest first: OR, AND, comparison,
\* additive, multiplicative, unary, primary
LevelOr == 1
LevelAnd == 2
LevelCompare == 3
LevelAdd == 4
LevelMul == 5
LevelUnary == 6

\* the operators of a left-associative level
LevelOps(level) ==
    CASE level = LevelOr -> OrOps
      [] level = LevelAnd -> AndOps
      [] level = LevelAdd -> AddOpTexts
      [] level = LevelMul -> MulOpTexts

\* the expressions of the grammar with n operators that bind at least as
\* tightly as level: left operands of a level are of the level, right
\* operands of the next one; a comparison takes additive operands
RECURSIVE GrammarExprs(_, _)
GrammarExprs(level, n) ==
    IF level = LevelUnary
    THEN IF n = 0 THEN ExprLeaves
         ELSE {UnaryExpr(op, x) : op \in UnaryOpTexts, x \in GrammarExprs(level, n - 1)}
    ELSE GrammarExprs(level + 1, n)
         \cup (IF n = 0 THEN {}
               ELSE IF level = LevelCompare
               THEN {IsNullExpr(x, b) : x \in GrammarExprs(LevelAdd, n - 1), b \in BOOLEAN}
                    \cup UNION {{BinaryExpr(op, x, y) :
                                     op \in CompareOpTexts,
                                     x \in GrammarExprs(LevelAdd, i),
                                     y \in GrammarExprs(LevelAdd, n - 1 - i)}
                                : i \in 0..(n - 1)}
               ELSE UNION {{BinaryExpr(op, x, y) :
                                op \in LevelOps(level),
                                x \in GrammarExprs(level, i),
                                y \in GrammarExprs(level + 1, n - 1 - i)}
                           : i \in 0..(n - 1)})

\* a OR b AND c is OR(a, AND(b, c))
ExampleOrAnd ==
    BinaryExpr(<<"O", "R">>, IdentExpr(<<"a">>),
               BinaryExpr(<<"A", "N", "D">>, IdentExpr(<<"b">>), IdentExpr(<<"c">>)))

\* x LIKE p || q OR y has OR at the root
ExampleLikeConcatOr ==
    BinaryExpr(<<"O", "R">>,
               BinaryExpr(<<"L", "I", "K", "E">>, IdentExpr(<<"x">>),
                          BinaryExpr(<<"|", "|">>, IdentExpr(<<"p">>), IdentExpr(<<"q">>))),
               IdentExpr(<<"y">>))

ExampleExprs == {ExampleOrAnd, ExampleLikeConcatOr}

\* the tokens of an expression in source order, without parentheses
RECURSIVE ExprTokens(_)
ExprTokens(e) ==
    CASE e.kind = "BinaryExpr" -> ExprTokens(e.Left) \o <<e.Op>> \o ExprTokens(e.Right)
      [] e.kind = "UnaryExpr" -> <<e.Op>> \o ExprTokens(e.Operand)
      [] e.kind = "IsNullExpr" ->
            ExprTokens(e.Operand) \o <<<<"I", "S">>>>
            \o (IF e.Not THEN <<<<"N", "O", "T">>>> ELSE <<>>)
            \o <<<<"N", "U", "L", "L">>>>
      [] e.kind = "IdentExpr" -> <<e.Name>>
      [] e.kind = "LiteralExpr" -> <<FormatInt(e.int)>>

\* is the token a number with a sign
IsNegativeNumber(tok) == Len(tok) > 1 /\ tok[1] = "-" /\ tok[2] \in Digits

\* the text of tokens: one space between two tokens, and, when tight, none
\* between a number with a sign and an operator sign that follows it
RECURSIVE TokensText(_, _)
TokensText(toks, tight) ==
    IF toks = <<>> THEN <<>>
    ELSE IF Len(toks) = 1 THEN toks[1]
    ELSE toks[1]
         \o (IF tight /\ IsNegativeNumber(toks[1]) /\ ~isLetter(toks[2][1])
             THEN <<>> ELSE <<" ">>)
         \o TokensText(Tail(toks), tight)

ExprText(src) == TokensText(ExprTokens(src.tree), src.tight)

\* the expressions of at most maxOps operators and the examples, each spaced
\* and tight
ExprSources(maxOps) ==
    {[tree |-> e, tight |-> t] :
        e \in UNION {GrammarExprs(LevelOr, n) : n \in 0..maxOps} \cup ExampleExprs,
        t \in BOOLEAN}

InitExpr ==
    /\ source \in ExprSources(MaxOps)
    /\ parser = NewFromString(ExprText(source))
    /\ parsed = <<>>
    /\ file = File(NoPos)
    /\ CodegenIdle
    /\ RuntimeIdle
    /\ LexerIdle
    /\ TokenizeIdle
    /\ CheckerIdle

ParseExpression ==
    /\ parsed = <<>>
    /\ parsed' = <<parseExpression(parser).node>>
    /\ parser' = parseExpression(parser).p
    /\ UNCHANGED <<rtVars, cgVars, lexVars, source, file, tokVars, checkVars>>

NextExpr == ParseExpression

SpecExpr == InitExpr /\ [][NextExpr]_vars

(***************************************************************************)
(* Claims about the expression parser.                                     *)
(***************************************************************************)
\* the tree without the positions of its nodes
RECURSIVE StripPositions(_)
StripPositions(e) ==
    CASE e.kind = "BinaryExpr" ->
            BinaryExpr(e.Op, StripPositions(e.Left), StripPositions(e.Right))
      [] e.kind = "UnaryExpr" -> UnaryExpr(e.Op, StripPositions(e.Operand))
      [] e.kind = "IsNullExpr" -> IsNullExpr(StripPositions(e.Operand), e.Not)
      [] e.kind = "ParenExpr" -> ParenExpr(StripPositions(e.Inner))
      [] e.kind = "CallExpr" ->
            CallExpr(e.Name, [i \in 1..Len(e.Args) |-> StripPositions(e.Args[i])])
      [] OTHER -> [e EXCEPT !.Position = NoPos]

\* parseExpression has read the whole text without a diagnostic and built
\* the tree of the grammar
ParsedAsGrammar ==
    /\ parser.errors = <<>>
    /\ curTokenIs(parser, "EOF")
    /\ StripPositions(parsed[1]) = source.tree

\* the part of C7 that the parser keeps: the grouping by binding power of
\* every expression in which a space follows each number with a sign
C7_SpacedExpressionsGrouped ==
    parsed # <<>> /\ ~source.tight => ParsedAsGrammar

\* C7: for every valid expression without parentheses the parser groups
\* the operators by binding power, loosest first OR, AND, comparison,
\* additive, multiplicative, unary, primary, and left to right within OR,
\* AND, additive and multiplicative: the tree parsed is the tree of the
\* grammar, a OR b AND c is OR(a, AND(b, c)) and x LIKE p || q OR y has OR
\* at the root.
C7_OperatorsGroupedByBindingPower ==
    parsed # <<>> => ParsedAsGrammar

(***************************************************************************)
(* The parser as a state machine: a Parser is made for a source text and   *)
(* ParseFile runs on it, one step for each iteration of its loop.  The     *)
(* text is written as words, which source keeps with what the schema       *)
(* declares; a word is printed with one space after it.                    *)
(***************************************************************************)
\* the characters of a word of the source texts
Chars(w) ==
    CASE w = "\"t\"" -> <<"\"", "t", "\"">>
      [] w = "\"x\"" -> <<"\"", "x", "\"">>
      [] w = "\"u" -> <<"\"", "u">>
      [] w = "#" -> <<"#">>
      [] w = "NUL" -> <<"NUL">>
      [] w = "(" -> <<"(">>
      [] w = ")" -> <<")">>
      [] w = "," -> <<",">>
      [] w = "-1}" -> <<"-", "1", "}">>
      [] w = "." -> <<".">>
      [] w = "0" -> <<"0">>
      [] w = "1" -> <<"1">>
      [] w = "100" -> <<"1", "0", "0">>
      [] w = "2" -> <<"2">>
      [] w = "5" -> <<"5">>
      [] w = ":" -> <<":">>
      [] w = ";" -> <<";">>
      [] w = "=" -> <<"=">>
      [] w = ">" -> <<">">>
      [] w = "?" -> <<"?">>
      [] w = "@" -> <<"@">>
      [] w = "A" -> <<"A">>
      [] w = "AND" -> <<"A", "N", "D">>
      [] w = "ASC" -> <<"A", "S", "C">>
      [] w = "B" -> <<"B">>
      [] w = "C" -> <<"C">>
      [] w = "D" -> <<"D">>
      [] w = "DESC" -> <<"D", "E", "S", "C">>
      [] w = "E" -> <<"E">>
      [] w = "IN" -> <<"I", "N">>
      [] w = "IS" -> <<"I", "S">>
      [] w = "K" -> <<"K">>
      [] w = "LIKE" -> <<"L", "I", "K", "E">>
      [] w = "M" -> <<"M">>
      [] w = "N" -> <<"N">>
      [] w = "NOT" -> <<"N", "O", "T">>
      [] w = "NULL" -> <<"N", "U", "L", "L">>
      [] w = "OR" -> <<"O", "R">>
      [] w = "S" -> <<"S">>
      [] w = "V" -> <<"V">>
      [] w = "W" -> <<"W">>
      [] w = "[" -> <<"[">>
      [] w = "]" -> <<"]">>
      [] w = "a" -> <<"a">>
      [] w = "b" -> <<"b">>
      [] w = "entity" -> <<"e", "n", "t", "i", "t", "y">>
      [] w = "enum" -> <<"e", "n", "u", "m">>
      [] w = "f" -> <<"f">>
      [] w = "id" -> <<"i", "d">>
      [] w = "idx" -> <<"i", "d", "x">>
      [] w = "import" -> <<"i", "m", "p", "o", "r", "t">>
      [] w = "int32" -> <<"i", "n", "t", "3", "2">>
      [] w = "k" -> <<"k">>
      [] w = "limit" -> <<"l", "i", "m", "i", "t">>
      [] w = "m" -> <<"m">>
      [] w = "max" -> <<"m", "a", "x">>
      [] w = "n" -> <<"n">>
      [] w = "o" -> <<"o">>
      [] w = "option" -> <<"o", "p", "t", "i", "o", "n">>
      [] w = "order_by" -> <<"o", "r", "d", "e", "r", "_", "b", "y">>
      [] w = "p" -> <<"p">>
      [] w = "package" -> <<"p", "a", "c", "k", "a", "g", "e">>
      [] w = "pk" -> <<"p", "k">>
      [] w = "q" -> <<"q">>
      [] w = "q1" -> <<"q", "1">>
      [] w = "q2" -> <<"q", "2">>
      [] w = "query" -> <<"q", "u", "e", "r", "y">>
      [] w = "returns" -> <<"r", "e", "t", "u", "r", "n", "s">>
      [] w = "rpc" -> <<"r", "p", "c">>
      [] w = "service" -> <<"s", "e", "r", "v", "i", "c", "e">>
      [] w = "stream" -> <<"s", "t", "r", "e", "a", "m">>
      [] w = "string" -> <<"s", "t", "r", "i", "n", "g">>
      [] w = "table" -> <<"t", "a", "b", "l", "e">>
      [] w = "w" -> <<"w">>
      [] w = "where" -> <<"w", "h", "e", "r", "e">>
      [] w = "x" -> <<"x">>
      [] w = "{" -> <<"{">>
      [] w = "}" -> <<"}">>
      [] w = "int64" -> <<"i", "n", "t", "6", "4">>
      [] w = "float" -> <<"f", "l", "o", "a", "t">>
      [] w = "double" -> <<"d", "o", "u", "b", "l", "e">>
      [] w = "bool" -> <<"b", "o", "o", "l">>
      [] w = "bytes" -> <<"b", "y", "t", "e", "s">>
      [] w = "timestamp" -> <<"t", "i", "m", "e", "s", "t", "a", "m", "p">>
      [] w = "fk" -> <<"f", "k">>
      [] w = "E.a" -> <<"E", ".", "a">>
      [] w = "\"E.a\"" -> <<"\"", "E", ".", "a", "\"">>
      [] w = "\"u.a\"" -> <<"\"", "u", ".", "a", "\"">>
      [] w = "\"Ea\"" -> <<"\"", "E", "a", "\"">>
      [] w = "\"E.a.b\"" -> <<"\"", "E", ".", "a", ".", "b", "\"">>
      [] w = "\"E.\"" -> <<"\"", "E", ".", "\"">>
      [] w = "NOW" -> <<"N", "O", "W">>
      [] w = "FOO" -> <<"F", "O", "O">>
      [] w = "u" -> <<"u">>
      [] w = "z" -> <<"z">>
      [] w = "r" -> <<"r">>

\* the text of a sequence of words: the words with one space between two
RECURSIVE WordsText(_)
WordsText(ws) ==
    IF ws = <<>> THEN <<>>
    ELSE IF Len(ws) = 1 THEN Chars(ws[1])
    ELSE WordsText(SubSeq(ws, 1, Len(ws) \div 2)) \o <<" ">>
            \o WordsText(SubSeq(ws, Len(ws) \div 2 + 1, Len(ws)))

\* what a source declares about an entity: its name, the names of its
\* annotations, its fields with the names of their annotations, and the
\* names of its queries, all in source order
EntityShape(name, annotations, fields, queries) ==
    [Name |-> name, Annotations |-> annotations, Fields |-> fields, Queries |-> queries]

FieldShape(name, annotations) == [Name |-> name, Annotations |-> annotations]

\* a declaration of a source: its words and the entity it declares, if any
Block(ws, entities) == [words |-> ws, entities |-> entities]

\* package p . q ;
PackageBlock ==
    Block(
        <<"package", "p", ".", "q", ";">>,
        <<>>)

\* import "x" ;
ImportBlock ==
    Block(
        <<"import", "\"x\"", ";">>,
        <<>>)

\* option o = 1 ;
OptionBlock ==
    Block(
        <<"option", "o", "=", "1", ";">>,
        <<>>)

\* enum K { V = 0 ; W = 1 ; }
EnumBlock ==
    Block(
        <<"enum", "K", "{", "V", "=", "0", ";", "W", "=", "1", ";", "}">>,
        <<>>)

\* service S { rpc M ( A ) returns ( stream B ) ; }
ServiceBlock ==
    Block(
        <<"service", "S", "{", "rpc", "M", "(", "A", ")", "returns", "(",
          "stream", "B", ")", ";", "}">>,
        <<>>)

\* entity A { }
EntityEmpty ==
    Block(
        <<"entity", "A", "{", "}">>,
        <<EntityShape(<<"A">>, <<>>, <<>>, <<>>)>>)

\* entity B { id : string ; n : int32 ? ; }
EntityFields ==
    Block(
        <<"entity", "B", "{", "id", ":", "string", ";", "n", ":", "int32",
          "?", ";", "}">>,
        <<EntityShape(<<"B">>, <<>>, <<FieldShape(<<"i", "d">>, <<>>),
          FieldShape(<<"n">>, <<>>)>>, <<>>)>>)

\* @ table ( "t" ) entity C { @ pk id : string ; @ idx @ max ( 5 ) n : int32 ; query q ( ) { where id = "x" } }
EntityAnnotated ==
    Block(
        <<"@", "table", "(", "\"t\"", ")", "entity", "C", "{", "@", "pk",
          "id", ":", "string", ";", "@", "idx", "@", "max", "(", "5", ")",
          "n", ":", "int32", ";", "query", "q", "(", ")", "{", "where", "id",
          "=", "\"x\"", "}", "}">>,
        <<EntityShape(<<"C">>, <<<<"t", "a", "b", "l", "e">>>>,
          <<FieldShape(<<"i", "d">>, <<<<"p", "k">>>>), FieldShape(<<"n">>,
          <<<<"i", "d", "x">>, <<"m", "a", "x">>>>)>>, <<<<"q">>>>)>>)

\* @ a @ b ( k = [ 1 , 2 ] ) entity D { x : K ; query q1 ( m : int32 = 1 ) { where x > m order_by x DESC limit m } query q2 ( ) { } }
EntityQueries ==
    Block(
        <<"@", "a", "@", "b", "(", "k", "=", "[", "1", ",", "2", "]", ")",
          "entity", "D", "{", "x", ":", "K", ";", "query", "q1", "(", "m",
          ":", "int32", "=", "1", ")", "{", "where", "x", ">", "m",
          "order_by", "x", "DESC", "limit", "m", "}", "query", "q2", "(", ")",
          "{", "}", "}">>,
        <<EntityShape(<<"D">>, <<<<"a">>, <<"b">>>>, <<FieldShape(<<"x">>,
          <<>>)>>, <<<<"q", "1">>, <<"q", "2">>>>)>>)

\* entity N { x : int32 ; query q ( ) { where x > -1} }
EntityNegative ==
    Block(
        <<"entity", "N", "{", "x", ":", "int32", ";", "query", "q", "(", ")",
          "{", "where", "x", ">", "-1}", "}">>,
        <<EntityShape(<<"N">>, <<>>, <<FieldShape(<<"x">>, <<>>)>>,
          <<<<"q">>>>)>>)

\* the declarations with a space after every token
SpacedBlocks ==
    {PackageBlock, ImportBlock, OptionBlock, EnumBlock, ServiceBlock,
      EntityEmpty, EntityFields, EntityAnnotated, EntityQueries}

ValidBlocks == SpacedBlocks \cup {EntityNegative}

\* @ x ( , ) entity A { }
BrokenAnnotationArg ==
    <<"@", "x", "(", ",", ")", "entity", "A", "{", "}">>

\* entity A { @ pk }
BrokenFieldAnnotation ==
    <<"entity", "A", "{", "@", "pk", "}">>

\* entity A { @ pk query q ( ) { } }
BrokenQueryAnnotation ==
    <<"entity", "A", "{", "@", "pk", "query", "q", "(", ")", "{", "}", "}">>

\* option o = ; entity A { }
BrokenOption ==
    <<"option", "o", "=", ";", "entity", "A", "{", "}">>

\* entity A { id : ; }
BrokenType ==
    <<"entity", "A", "{", "id", ":", ";", "}">>

\* entity A { 1 }
BrokenBody ==
    <<"entity", "A", "{", "1", "}">>

\* ) entity A { }
BrokenTopLevel ==
    <<")", "entity", "A", "{", "}">>

\* @ x enum K { }
BrokenTopAnnotation ==
    <<"@", "x", "enum", "K", "{", "}">>

\* entity A { query q ( ) { 1 } }
BrokenQueryBody ==
    <<"entity", "A", "{", "query", "q", "(", ")", "{", "1", "}", "}">>

\* entity A { query q ( ) { where = } }
BrokenExpression ==
    <<"entity", "A", "{", "query", "q", "(", ")", "{", "where", "=", "}",
      "}">>

\* service S { 1 rpc M ( ) }
BrokenService ==
    <<"service", "S", "{", "1", "rpc", "M", "(", ")", "}">>

\* import x ; package ; enum K { 1 }
BrokenImport ==
    <<"import", "x", ";", "package", ";", "enum", "K", "{", "1", "}">>

BrokenTexts ==
    {BrokenAnnotationArg, BrokenFieldAnnotation, BrokenQueryAnnotation,
      BrokenOption, BrokenType, BrokenBody, BrokenTopLevel,
      BrokenTopAnnotation, BrokenQueryBody, BrokenExpression, BrokenService,
      BrokenImport}

\* entity E { query q ( <name> : int32 ) { } }
ParamNameTemplate ==
    <<"entity", "E", "{", "query", "q", "(", "?", ":", "int32", ")", "{", "}",
      "}">>

\* entity E { query q ( <name> : int32 = 100 ) { limit <name> } }
LimitTemplate ==
    <<"entity", "E", "{", "query", "q", "(", "?", ":", "int32", "=", "100",
      ")", "{", "limit", "?", "}", "}">>

\* entity E { f : int32 ; query q ( ) { where f = <name> } }
WhereTemplate ==
    <<"entity", "E", "{", "f", ":", "int32", ";", "query", "q", "(", ")", "{",
      "where", "f", "=", "?", "}", "}">>

\* entity E { <name> : int32 ; }
FieldNameTemplate ==
    <<"entity", "E", "{", "?", ":", "int32", ";", "}">>

\* entity E { f : int32 ; query q ( ) { order_by <name> } }
OrderByTemplate ==
    <<"entity", "E", "{", "f", ":", "int32", ";", "query", "q", "(", ")", "{",
      "order_by", "?", "}", "}">>

\* entity <name> { }
EntityNameTemplate ==
    <<"entity", "?", "{", "}">>

\* enum <name> { }
EnumNameTemplate ==
    <<"enum", "?", "{", "}">>

\* @ <name> entity E { }
AnnotationNameTemplate ==
    <<"@", "?", "entity", "E", "{", "}">>

NameTemplates ==
    {ParamNameTemplate, LimitTemplate, WhereTemplate, FieldNameTemplate,
      OrderByTemplate, EntityNameTemplate, EnumNameTemplate,
      AnnotationNameTemplate}

\* the spellings that LookupIdent maps to the keywords of isKeywordAsIdent
KeywordWords ==
    {"limit", "where", "order_by", "query", "ASC", "DESC", "AND", "OR", "NOT",
      "IN", "LIKE", "IS", "NULL"}

JunkWords == {",", ")", "1"}

\* the words of a template with the name written in its place
Fill(ws, name) == [i \in 1..Len(ws) |-> IF ws[i] = "?" THEN name ELSE ws[i]]

\* the words with one more word after the first k of them
Insert(ws, k, w) == SubSeq(ws, 1, k) \o <<w>> \o SubSeq(ws, k + 1, Len(ws))

RECURSIVE BlocksWords(_)
BlocksWords(bs) == IF bs = <<>> THEN <<>> ELSE bs[1].words \o BlocksWords(Tail(bs))

RECURSIVE BlocksEntities(_)
BlocksEntities(bs) == IF bs = <<>> THEN <<>> ELSE bs[1].entities \o BlocksEntities(Tail(bs))

Source(ws, entities, family, name) ==
    [words |-> ws, entities |-> entities, family |-> family, name |-> name]

\* the valid schemas: "spaced" when a space follows every token
ValidSources ==
    {Source(BlocksWords(bs), BlocksEntities(bs),
            IF \A i \in 1..Len(bs) : bs[i] \in SpacedBlocks THEN "spaced" ELSE "tight",
            "")
        : bs \in SeqsUpTo(ValidBlocks, MaxDecls)}

\* the schemas with a token that the grammar does not accept
BrokenSources ==
    {Source(ws, <<>>, "broken", "") : ws \in BrokenTexts}
    \cup {Source(Insert(b.words, k, w), <<>>, "broken", "")
            : b \in {EntityAnnotated}, k \in 0..Len(EntityAnnotated.words), w \in JunkWords}

\* the schemas with a keyword, or the plain name w, where a name belongs
KeywordSources ==
    {Source(Fill(t, w), <<>>, "keyword", w) : t \in NameTemplates, w \in KeywordWords \cup {"w"}}

\* the words that the lexer makes an ILLEGAL token of: a character of no
\* token, and a string that is not closed
IllegalWords == {"#", "\"u"}

\* the schemas with ILLEGAL tokens: one at any place of a declaration, two
\* in a row, and a string left open at the end
IllegalSources ==
    UNION {{Source(Insert(b.words, k, "#"), <<>>, "illegal", "") : k \in 0..Len(b.words)}
            : b \in {EntityAnnotated, EntityQueries, EnumBlock, ServiceBlock, OptionBlock}}
    \cup {Source(Insert(Insert(EntityFields.words, k, "#"), k, "#"), <<>>, "illegal", "")
            : k \in 0..Len(EntityFields.words)}
    \cup {Source(b.words \o <<w>>, <<>>, "illegal", "") : b \in SpacedBlocks, w \in IllegalWords}

ParseSources == ValidSources \cup BrokenSources \cup KeywordSources \cup IllegalSources

SourceText(src) == WordsText(src.words)

InitParse ==
    /\ source \in ParseSources
    /\ parser = NewFromString(SourceText(source))
    /\ file = File(curPos(NewFromString(SourceText(source))))
    /\ parsed = <<>>
    /\ CodegenIdle
    /\ RuntimeIdle
    /\ LexerIdle
    /\ TokenizeIdle
    /\ CheckerIdle

\* one iteration of the loop of ParseFile, in the case of the token type t:
\* r is the parser and the file after the case
ParseFileCase(t, r) ==
    /\ ~curTokenIs(parser, "EOF")
    /\ parser.curToken.Type = t
    /\ parser' = r.p
    /\ file' = r.node
    /\ UNCHANGED <<rtVars, cgVars, lexVars, source, parsed, tokVars, checkVars>>

ParsePackage ==
    ParseFileCase("PACKAGE", setPtr(Res(parser, file), "Package", parsePackageDecl(parser)))

ParseImport ==
    ParseFileCase("IMPORT", appendTo(Res(parser, file), "Imports", parseImportDecl(parser)))

ParseOption ==
    ParseFileCase("OPTION", appendTo(Res(parser, file), "Options", parseOptionDecl(parser)))

ParseEnum ==
    ParseFileCase("ENUM", appendTo(Res(parser, file), "Enums", parseEnumDecl(parser)))

ParseAnnotated ==
    ParseFileCase("AT", annotatedEntity(Res(parser, file), parseAnnotations(parser)))

ParseEntity ==
    ParseFileCase("ENTITY", appendTo(Res(parser, file), "Entities", parseEntityDecl(parser)))

ParseService ==
    ParseFileCase("SERVICE", appendTo(Res(parser, file), "Services", parseServiceDecl(parser)))

\* lexer.New(text).Tokenize(), on the text that the parser is given
CallTokenize ==
    /\ tokenized = <<>>
    /\ tokenized' = <<Tokenize(New(SourceText(source)))>>
    /\ UNCHANGED <<rtVars, cgVars, lexVars, parseVars, checkVars>>

DeclarationTokens == {"PACKAGE", "IMPORT", "OPTION", "ENUM", "AT", "ENTITY", "SERVICE"}

ParseUnexpected ==
    /\ parser.curToken.Type \notin DeclarationTokens
    /\ ParseFileCase(parser.curToken.Type, unexpectedDeclaration(Res(parser, file)))

NextParse ==
    \/ ParsePackage
    \/ ParseImport
    \/ ParseOption
    \/ ParseEnum
    \/ ParseAnnotated
    \/ ParseEntity
    \/ ParseService
    \/ ParseUnexpected
    \/ CallTokenize

SpecParse == InitParse /\ [][NextParse]_vars

(***************************************************************************)
(* ParseFile to its end, on the sources above and on schemas with one more *)
(* word at any place: a token that the construct there does not accept, a  *)
(* character of no token, or a NUL byte, at which NextToken returns an     *)
(* end-of-input token before the end of the text.  ParseFile runs on one   *)
(* goroutine and each iteration of its loop is a step that is taken when   *)
(* it can be.                                                              *)
(***************************************************************************)
\* entity E { query q ( x : int32 ) { limit FOO ( x , 1 ) } }
CallWords ==
    <<"entity", "E", "{", "query", "q", "(", "x", ":", "int32", ")", "{", "limit", "FOO",
      "(", "x", ",", "1", ")", "}", "}">>

StrayWords == {",", ")", "1", "@", "#", "NUL"}

StrayTexts ==
    {CallWords, EntityQueries.words, EntityAnnotated.words, EnumBlock.words,
     ServiceBlock.words, OptionBlock.words, PackageBlock.words}

StraySources ==
    UNION {{Source(Insert(ws, k, w), <<>>, "stray", w) : k \in 0..Len(ws), w \in StrayWords}
            : ws \in StrayTexts}

InitTerminate ==
    /\ source \in ParseSources \cup StraySources
    /\ parser = NewFromString(SourceText(source))
    /\ file = File(curPos(NewFromString(SourceText(source))))
    /\ parsed = <<>>
    /\ CodegenIdle
    /\ RuntimeIdle
    /\ LexerIdle
    /\ TokenizeIdle
    /\ CheckerIdle

SpecTerminate == InitTerminate /\ [][NextParse]_vars /\ WF_vars(NextParse)

(***************************************************************************)
(* Claims about the parser.                                                *)
(***************************************************************************)
\* ParseFile has returned
ParseDone == curTokenIs(parser, "EOF")

NamesOf(nodes) == [i \in 1..Len(nodes) |-> nodes[i].Name]

FieldShapeOf(f) == FieldShape(f.Name, NamesOf(f.Annotations))

EntityShapeOf(e) ==
    EntityShape(e.Name, NamesOf(e.Annotations),
                [i \in 1..Len(e.Fields) |-> FieldShapeOf(e.Fields[i])],
                NamesOf(e.Queries))

\* the file has the entities that the source declares, in source order, and
\* the parser has reported nothing
EntitiesAsDeclared ==
    /\ parser.errors = <<>>
    /\ Len(file.Entities) = Len(source.entities)
    /\ \A i \in 1..Len(source.entities) : EntityShapeOf(file.Entities[i]) = source.entities[i]

\* the part of C8 that the parser keeps: the entities of every valid schema
\* in which a space follows each number with a sign
C8_SpacedSchemasParsed ==
    ParseDone /\ source.family = "spaced" => EntitiesAsDeclared

\* C8: for every syntactically valid schema with N entity declarations,
\* with or without leading annotations, ParseFile returns exactly N Entity
\* nodes in source order, each with the annotations written before it and
\* its fields and queries in source order.
C8_EntitiesInSourceOrder ==
    ParseDone /\ source.family \in {"spaced", "tight"} => EntitiesAsDeclared

\* C9: the parser discards no token and no parsed annotation without a
\* diagnostic: when ParseFile has returned, no token was skipped by a branch
\* that reports nothing, and no parsed annotation was left unattached.
C9_NothingDiscardedSilently ==
    ParseDone => parser.silent = <<>> /\ parser.dropped = <<>>

\* the query of the example: a parameter named limit and LIMIT Identifier(limit)
LimitExampleParsed ==
    /\ Len(file.Entities) = 1
    /\ Len(file.Entities[1].Queries) = 1
    /\ NamesOf(file.Entities[1].Queries[1].Params) = <<Chars(source.name)>>
    /\ Len(file.Entities[1].Queries[1].Limit) = 1
    /\ StripPositions(file.Entities[1].Queries[1].Limit[1]) = IdentExpr(Chars(source.name))

\* the part of C10 that the parser keeps: a keyword is a parameter name and
\* the identifier of a LIMIT expression
C10_KeywordParameterNames ==
    ParseDone /\ source.family = "keyword"
              /\ source.words \in {Fill(ParamNameTemplate, source.name),
                                   Fill(LimitTemplate, source.name)}
        => parser.errors = <<>>
           /\ (source.words = Fill(LimitTemplate, source.name) => LimitExampleParsed)

\* C10: each keyword of limit, where, order_by, query, asc, desc, and, or,
\* not, in, like, is, null is accepted as an identifier wherever the grammar
\* requires an identifier (query parameter names, identifiers in
\* expressions, field names, ORDER BY field names, entity, enum and
\* annotation names) with no diagnostic.
C10_KeywordsAcceptedAsIdentifiers ==
    ParseDone /\ source.family = "keyword" => parser.errors = <<>>

(***************************************************************************)
(* Claims about lexical errors in Tokenize and in the parser.              *)
(***************************************************************************)
\* the tokens of the source text, up to the end of the input
SourceTokens == lexTokens(New(SourceText(source)), Len(SourceText(source)) + 1)

\* the places of the ILLEGAL tokens in a token list
IllegalAt(toks) == {i \in 1..Len(toks) : toks[i].Type = "ILLEGAL"}

\* the place of the first token of a type in a token list that has one
FirstOf(toks, types) ==
    CHOOSE i \in 1..Len(toks) :
        /\ toks[i].Type \in types
        /\ \A j \in 1..(i - 1) : toks[j].Type \notin types

\* the tokens of a list after the first n
Rest(toks, n) == SubSeq(toks, n + 1, Len(toks))

\* the diagnostics of the parser at the position of a token
ErrorsAt(tok) ==
    {j \in 1..Len(parser.errors) :
        parser.errors[j].Line = tok.Line /\ parser.errors[j].Column = tok.Column}

\* the part of C11 that the lexer keeps: Tokenize returns no token list and
\* the error of the first ILLEGAL token, with the lexer just past that token
\* (the tokens after it are still to be read), and the tokens up to EOF and
\* no error when there is none
C11_TokenizeStopsAtFirstIllegal ==
    tokenized # <<>> =>
        IF IllegalAt(SourceTokens) # {}
        THEN /\ tokenized[1].tokens = <<>>
             /\ tokenized[1].err =
                    <<[Literal |-> SourceTokens[FirstOf(SourceTokens, {"ILLEGAL"})].Literal,
                       Line |-> SourceTokens[FirstOf(SourceTokens, {"ILLEGAL"})].Line,
                       Column |-> SourceTokens[FirstOf(SourceTokens, {"ILLEGAL"})].Column]>>
             /\ lexTokens(tokenized[1].l, Len(SourceText(source)) + 1) =
                    Rest(SourceTokens, FirstOf(SourceTokens, {"ILLEGAL"}))
        ELSE /\ tokenized[1].err = <<>>
             /\ tokenized[1].tokens = SubSeq(SourceTokens, 1, FirstOf(SourceTokens, {"EOF"}))

\* C11: Tokenize stops at the first ILLEGAL token and returns an error and
\* no token list, never reading past it; the parser records exactly one
\* diagnostic for each ILLEGAL token it meets, wherever it occurs, and goes
\* on to the end of the input.
C11_LexicalErrorsHandled ==
    /\ C11_TokenizeStopsAtFirstIllegal
    /\ ParseDone =>
            \A i \in IllegalAt(parser.tokens) : Cardinality(ErrorsAt(parser.tokens[i])) = 1

(***************************************************************************)
(* The lexer on strings that are not closed: the input is some text        *)
(* without a quote, an opening quote, and characters and escapes none of   *)
(* which is an unescaped quote.  NextToken is called as in SpecLex.        *)
(***************************************************************************)
\* what may stand before the opening quote
PrefixChars == {"a", " ", "\n"}

\* a character of the string, or an escape
StringItems == {<<"a">>, <<"\n">>, <<"\\", "\"">>, <<"\\", "\\">>, <<"\\", "n">>}

RECURSIVE Flatten(_)
Flatten(items) == IF items = <<>> THEN <<>> ELSE items[1] \o Flatten(Tail(items))

OpenStringInputs ==
    {prefix \o <<"\"">> \o Flatten(items) :
        prefix \in SeqsUpTo(PrefixChars, MaxPrefixLen),
        items \in SeqsUpTo(StringItems, MaxStrItems)}

InitString ==
    /\ lexer \in {New(input) : input \in OpenStringInputs}
    /\ emitted = <<>>
    /\ CodegenIdle
    /\ RuntimeIdle
    /\ ParserIdle
    /\ TokenizeIdle
    /\ CheckerIdle

SpecString == InitString /\ [][NextLex]_vars

(***************************************************************************)
(* The lexer on texts of several lines: identifiers, operators of two      *)
(* characters, numbers with a sign, strings that are closed, comments,     *)
(* spaces and line feeds.  NextToken is called as in SpecLex.              *)
(***************************************************************************)
MaxPieces == 3      \* lexer: pieces of a text of several lines

Pieces ==
    {<<"a">>, <<" ">>, <<"\n">>, <<"<", "=">>, <<"|", "|">>, <<"-", "1">>,
     <<"\"", "a", "\"">>, <<"\"", "\n", "\"">>, <<"\"", "\\", "\n", "\"">>,
     <<"/", "/", "a">>, <<"/", "*", "\n", "*", "/">>}

LineInputs == {Flatten(ps) : ps \in SeqsUpTo(Pieces, MaxPieces)}

InitLines ==
    /\ lexer \in {New(input) : input \in LineInputs}
    /\ emitted = <<>>
    /\ CodegenIdle
    /\ RuntimeIdle
    /\ ParserIdle
    /\ TokenizeIdle
    /\ CheckerIdle

SpecLines == InitLines /\ [][NextLex]_vars

(***************************************************************************)
(* Claims about strings that are not closed.                               *)
(***************************************************************************)
\* the offset (from 0) of the first quote of an input that has one
QuoteOffset(input) ==
    CHOOSE off \in 0..(Len(input) - 1) :
        /\ input[off + 1] = "\""
        /\ \A k \in 1..off : input[k] # "\""

\* the line of an offset: one more than the line feeds before it
LineOf(input, off) == 1 + Cardinality({k \in 1..off : input[k] = "\n"})

\* the column of an offset: its distance from the last line feed before it,
\* or from the start of the input
ColumnOf(input, off) ==
    off + 1 - (IF \E k \in 1..off : input[k] = "\n"
               THEN CHOOSE k \in 1..off :
                        input[k] = "\n" /\ \A j \in (k + 1)..off : input[j] # "\n"
               ELSE 0)

\* the error token of a string that is not closed, at the opening quote
UnterminatedAt(input, off) ==
    Token("ILLEGAL",
          <<"u", "n", "t", "e", "r", "m", "i", "n", "a", "t", "e", "d",
            " ", "s", "t", "r", "i", "n", "g">>,
          LineOf(input, off), ColumnOf(input, off))

\* the calls of NextToken that started on the opening quote
QuoteCalls == {i \in 1..Len(emitted) : emitted[i].from = QuoteOffset(lexer.input)}

\* the string text has a line feed that is not escaped
RECURSIVE SpansLines(_)
SpansLines(text) ==
    IF text = <<>> THEN FALSE
    ELSE IF text[1] = "\\" THEN SpansLines(Rest(text, 2))
    ELSE text[1] = "\n" \/ SpansLines(Tail(text))

\* the part of C12 that the lexer keeps: the error token and its position
\* when no line feed of the string text moves the line
C12_OneLineStringUnterminated ==
    \A i \in QuoteCalls :
        ~SpansLines(Rest(lexer.input, QuoteOffset(lexer.input) + 1))
            => emitted[i].tok = UnterminatedAt(lexer.input, QuoteOffset(lexer.input))

\* C12: for every input in which an opening quote has no closing unescaped
\* quote before the end of the input, NextToken returns an ILLEGAL token
\* with the message `unterminated string` and the line and column of the
\* opening quote, also when the string text spans several lines.
C12_UnterminatedStringAtOpeningQuote ==
    \A i \in QuoteCalls :
        emitted[i].tok = UnterminatedAt(lexer.input, QuoteOffset(lexer.input))

(***************************************************************************)
(* The checker as a state machine: a schema text is parsed, and Check is   *)
(* called on the file that ParseFile returned, through the method of one   *)
(* Checker or through the function that makes a Checker of its own.  A     *)
(* call that panicked ends the process.                                    *)
(***************************************************************************)
\* one field of an entity: @pk name : string ? ;  and what recovery makes
\* of a field that stops after its name
FieldWords(k) ==
    (IF k.pk THEN <<"@", "pk">> ELSE <<>>)
    \o <<k.name>>
    \o (IF k.typed THEN <<":", "string">> \o (IF k.optional THEN <<"?">> ELSE <<>>) ELSE <<>>)
    \o <<";">>

FieldKinds ==
    [name : {"a", "b"}, pk : BOOLEAN, optional : BOOLEAN, typed : {TRUE}]
    \cup [name : {"a"}, pk : BOOLEAN, optional : {FALSE}, typed : {FALSE}]

EntityWords(name, fields) ==
    <<"entity", name, "{">> \o Flatten([i \in 1..Len(fields) |-> FieldWords(fields[i])])
    \o <<"}">>

\* the entity that the words declare
FieldsEntity(name, fields) ==
    EntityShape(Chars(name), <<>>,
                [i \in 1..Len(fields) |->
                    FieldShape(Chars(fields[i].name),
                               IF fields[i].pk THEN <<Chars("pk")>> ELSE <<>>)],
                <<>>)

FieldSources(maxFields) ==
    {Source(EntityWords("E", fs), <<FieldsEntity("E", fs)>>, "fields", "")
        : fs \in SeqsUpTo(FieldKinds, maxFields)}

\* declarations that share names
DeclWords(d) ==
    CASE d.kind = "enum" -> <<"enum", d.name, "{", "V", "=", "0", ";", "}">>
      [] d.kind = "entity" -> <<"entity", d.name, "{", "@", "pk", "a", ":", "string", ";", "}">>
      [] d.kind = "service" ->
            <<"service", d.name, "{", "rpc", "M", "(", "A", ")", "returns", "(", "B", ")",
              ";", "}">>

DeclKinds == [kind : {"enum", "entity", "service"}, name : {"A", "B"}]

DeclSources(maxDecls) ==
    {Source(Flatten([i \in 1..Len(ds) |-> DeclWords(ds[i])]), <<>>, "decls", "")
        : ds \in SeqsUpTo(DeclKinds, maxDecls)}

\* the names used in the queries: a is a field, p the parameter of the
\* query, z the parameter of another query, u is declared nowhere, NOW is
\* a builtin function
QueryIdents == {"a", "p", "z", "u", "NOW"}

WhereWords ==
    {<<"where", i, "=", "1">> : i \in QueryIdents}
    \cup {<<"where", "NOW", "(", ")", "=", i>> : i \in QueryIdents}
    \cup {<<"where", "FOO", "(", i, ")", "=", "1">> : i \in QueryIdents}

QueryWords(where, i) ==
    <<"entity", "E", "{", "@", "pk", "a", ":", "string", ";",
      "query", "q", "(", "p", ":", "string", ")", "{">>
    \o where \o <<"order_by", i, "limit", i, "}",
      "query", "r", "(", "z", ":", "string", ")", "{", "where", "z", "=", "1", "}", "}">>

QuerySources ==
    {Source(QueryWords(w, i), <<>>, "queries", "") : w \in WhereWords, i \in QueryIdents}

\* services whose rpcs stop early, and a parameter without a type
RpcWords ==
    {<<"rpc", "M", "(", "E", ")", "returns", "(", "u", ")", ";">>,
     <<"rpc", "M", "(", "E", ")", ";">>,
     <<"rpc", "M", ";">>,
     <<"rpc", "M", "returns", "(", "E", ")", ";">>}

RpcSources ==
    {Source(<<"entity", "E", "{", "@", "pk", "a", ":", "string", ";", "}", "service", "S", "{">>
            \o w \o <<"}">>, <<>>, "rpcs", "") : w \in RpcWords}
    \cup {Source(<<"entity", "E", "{", "@", "pk", "a", ":", "string", ";",
                   "query", "q", "(", "p", ")", "{", "}", "}">>, <<>>, "rpcs", "")}

\* type references: the entity E has a field and a query parameter whose
\* types are built-in, the enum K, the entity E itself, the entity B, or u,
\* which nothing declares; K and B are declared before E, after E or not
\* at all
ScalarWords ==
    {"string", "int32", "int64", "float", "double", "bool", "bytes", "timestamp"}

TypeWords == ScalarWords \cup {"K", "E", "B", "u"}

Placements == {"before", "after", "absent"}

EnumWords(at, where) ==
    IF at = where THEN <<"enum", "K", "{", "V", "=", "0", ";", "}">> ELSE <<>>

OtherEntityWords(at, where) ==
    IF at = where THEN <<"entity", "B", "{", "@", "pk", "a", ":", "string", ";", "}">>
    ELSE <<>>

TypedEntityWords(fieldType, paramType, tail) ==
    <<"entity", "E", "{", "@", "pk", "a", ":", "string", ";", "b", ":", fieldType, ";">>
    \o tail
    \o <<"query", "q", "(", "p", ":", paramType, ")", "{", "}", "}">>

TypeWordsOf(k, b, fieldType, paramType, tail) ==
    EnumWords(k, "before") \o OtherEntityWords(b, "before")
    \o TypedEntityWords(fieldType, paramType, tail)
    \o OtherEntityWords(b, "after") \o EnumWords(k, "after")

\* the last sources have a field that stops after its name
TypeSources ==
    {Source(TypeWordsOf(k, b, t, pt, <<>>), <<>>, "types", "")
        : k \in Placements, b \in Placements, t \in TypeWords, pt \in {"string", "u", "B"}}
    \cup {Source(TypeWordsOf("absent", "absent", t, "string", <<"a", ";">>), <<>>, "types", "")
            : t \in {"string", "u"}}

\* what follows the name of an @fk annotation: nothing, no argument, a
\* number, a list, strings, an identifier, and the dotted reference of the
\* annotations table of the documentation
FkArguments ==
    {<<>>, <<"(", ")">>, <<"(", "5", ")">>, <<"(", "[", "1", "]", ")">>,
     <<"(", "\"E.a\"", ")">>, <<"(", "\"u.a\"", ")">>, <<"(", "\"Ea\"", ")">>,
     <<"(", "\"E.a.b\"", ")">>, <<"(", "\"E.\"", ")">>, <<"(", "E", ")">>}

FkDocumented == <<"(", "E.a", ")">>

FkWords(args) ==
    <<"entity", "E", "{", "@", "pk", "a", ":", "string", ";", "@", "fk">> \o args
    \o <<"b", ":", "string", ";", "}">>

FkSources ==
    {Source(FkWords(args), <<>>, "fk", "") : args \in FkArguments}
    \cup {Source(FkWords(FkDocumented), <<>>, "fk", "documented")}

CheckSources(maxFields, maxDecls) ==
    FieldSources(maxFields) \cup DeclSources(maxDecls) \cup QuerySources \cup RpcSources
    \cup TypeSources \cup FkSources

InitCheck ==
    /\ source \in CheckSources(MaxFields, MaxSameDecls)
    /\ \E r \in {ParseFile(NewFromString(SourceText(source)))} :
          /\ parser = r.p
          /\ file = r.node
          /\ checker = NewChecker(r.node)
    /\ parsed = <<>>
    /\ checked = <<>>
    /\ rendered = <<>>
    /\ CodegenIdle
    /\ RuntimeIdle
    /\ LexerIdle
    /\ TokenizeIdle

\* what a call of Check gave: the slice returned, or no return at all
Outcome(by, c) ==
    [by |-> by, panicked |-> c.panicked, errors |-> IF c.panicked THEN <<>> ELSE c.errors]

\* no call has panicked
Running == \A i \in 1..Len(checked) : ~checked[i].panicked

\* c.Check() on the Checker made by New(file)
CallCheckMethod ==
    /\ Len(checked) < MaxChecks
    /\ Running
    /\ checker' = CheckMethod(checker)
    /\ rendered = <<>>
    /\ checked' = Append(checked, Outcome("method", checker'))
    /\ UNCHANGED <<rtVars, cgVars, lexVars, parseVars, tokVars, rendered>>

\* checker.Check(file)
CallCheckFunction ==
    /\ Len(checked) < MaxChecks
    /\ Running
    /\ rendered = <<>>
    /\ checked' = Append(checked, Outcome("function", Check(file)))
    /\ UNCHANGED <<rtVars, cgVars, lexVars, parseVars, tokVars, checker, rendered>>

\* the characters with the codes '0', '0' + 1, ...
FromZero ==
    <<"0", "1", "2", "3", "4", "5", "6", "7", "8", "9", ":", ";", "<", "=", ">", "?", "@",
      "A", "B", "C", "D", "E", "F", "G", "H", "I", "J", "K", "L", "M", "N", "O", "P", "Q",
      "R", "S", "T", "U", "V", "W", "X", "Y", "Z", "[", "\\", "]", "^", "_", "U+0060",
      "a", "b", "c", "d", "e", "f", "g", "h", "i", "j", "k", "l", "m", "n", "o", "p", "q",
      "r", "s", "t", "u", "v", "w", "x", "y", "z", "{", "|", "}", "~">>

\* string(rune('0' + n)): a rune beyond the table is kept as its code
RuneFromZero(n) ==
    IF n + 1 <= Len(FromZero) THEN FromZero[n + 1] ELSE [rune |-> 48 + n]

\* Position.String() of a position without file name
PositionString(pos) == <<RuneFromZero(pos.Line), ":", RuneFromZero(pos.Column)>>

\* Error.Error(): fmt.Sprintf("%d:%d: %s", pos.Line, pos.Column, e.Message)
ErrorText(e) ==
    FormatInt(e.Position.Line) \o <<":">> \o FormatInt(e.Position.Column) \o <<":", " ">>
    \o e.Message

\* the message of curError: the expected text and the name of the token
\* type are each one item of it
ExpectedGot(e) ==
    <<"e", "x", "p", "e", "c", "t", "e", "d", " ", e.expected, ",", " ", "g", "o", "t", " ",
      e.got>>

\* fmt.Sprintf("line %d:%d: expected %s, got %s", ...) of curError
ParserErrorText(e) ==
    <<"l", "i", "n", "e", " ">> \o FormatInt(e.Line) \o <<":">> \o FormatInt(e.Column)
    \o <<":", " ">> \o ExpectedGot(e)

\* the diagnostics of the parser, p.Errors(), and of the last call of
\* Check, each rendered; and the positions of the latter
Rendering(parserErrors, checkerErrors) ==
    [parser |-> [k \in 1..Len(parserErrors) |-> ParserErrorText(parserErrors[k])],
     checker |-> [k \in 1..Len(checkerErrors) |-> ErrorText(checkerErrors[k])],
     positions |-> [k \in 1..Len(checkerErrors) |-> PositionString(checkerErrors[k].Position)]]

\* the diagnostics that the last call of Check returned, if Check was called
LastChecked == IF checked = <<>> THEN <<>> ELSE checked[Len(checked)].errors

RenderDiagnostics ==
    /\ rendered = <<>>
    /\ Running
    /\ rendered' = <<Rendering(parser.errors, LastChecked)>>
    /\ UNCHANGED <<rtVars, cgVars, lexVars, parseVars, tokVars, checker, checked>>

NextCheck ==
    \/ CallCheckMethod
    \/ CallCheckFunction
    \/ RenderDiagnostics

SpecCheck == InitCheck /\ [][NextCheck]_vars

(***************************************************************************)
(* Claims about the checker.                                               *)
(***************************************************************************)
\* every pointer that the checker dereferences is set
CompleteFields(entity) == \A i \in 1..Len(entity.Fields) : entity.Fields[i].Type # <<>>

CompleteQueries(entity) ==
    \A i \in 1..Len(entity.Queries) :
        \A j \in 1..Len(entity.Queries[i].Params) : entity.Queries[i].Params[j].Type # <<>>

CompleteService(svc) ==
    \A i \in 1..Len(svc.Methods) :
        svc.Methods[i].RequestType # <<>> /\ svc.Methods[i].ResponseType # <<>>

Complete(f) ==
    /\ \A i \in 1..Len(f.Entities) : CompleteFields(f.Entities[i]) /\ CompleteQueries(f.Entities[i])
    /\ \A i \in 1..Len(f.Services) : CompleteService(f.Services[i])

\* the diagnostics of the three loops of Check, each run on the symbol
\* tables with no diagnostic before it
PhaseErrors(tables) ==
    tables.errors
    \o checkEntities([tables EXCEPT !.errors = <<>>], 1).errors
    \o checkServices([tables EXCEPT !.errors = <<>>], 1).errors

\* C13 (the part that holds): on a file in which every field and parameter
\* has its type and every rpc its request and response type, Check returns,
\* and what the function Check returns is the diagnostics of the symbol
\* tables, then of the entities, then of the services, whatever the
\* earlier ones reported.
C13_CompleteFilesChecked ==
    Complete(file) =>
        \A i \in 1..Len(checked) :
            /\ ~checked[i].panicked
            /\ checked[i].by = "function"
                  => checked[i].errors = PhaseErrors(buildSymbolTables(NewChecker(file)))

\* C13: Check completes and returns a diagnostic list, without crashing,
\* for every File the parser can return, a structurally incomplete one
\* included.
C13_CheckReturnsDiagnostics == \A i \in 1..Len(checked) : ~checked[i].panicked

\* the calls made on a Checker that no call of its method has used
Fresh ==
    {i \in 1..Len(checked) :
        checked[i].by = "function" \/ \A j \in 1..(i - 1) : checked[j].by # "method"}

\* C14 (the part that holds): every call of Check on a Checker that has
\* not run before yields the same outcome for the same file.
C14_FreshCheckersAgree ==
    \A i, j \in Fresh :
        checked[i].errors = checked[j].errors /\ checked[i].panicked = checked[j].panicked

\* C14: re-checking a valid File yields an empty diagnostic list on every
\* run, and two runs on the same File yield the same list, through the
\* function Check or through the method called again on the same Checker.
C14_RecheckSameDiagnostics ==
    /\ \A i, j \in 1..Len(checked) : checked[i].errors = checked[j].errors
    /\ (Len(checked) > 0 /\ checked[1].errors = <<>> /\ ~checked[1].panicked)
          => \A i \in 1..Len(checked) : checked[i].errors = <<>>

\* how many times the method Check has run on the Checker
MethodRuns == Cardinality({i \in 1..Len(checked) : checked[i].by = "method"})

\* the declarations after the first of their name, and the first and the
\* last declaration of a name
Repeated(decls) ==
    {i \in 1..Len(decls) : \E j \in 1..(i - 1) : decls[j].Name = decls[i].Name}

FirstNamed(decls, name) ==
    decls[CHOOSE i \in 1..Len(decls) : decls[i].Name = name /\ i \notin Repeated(decls)]

LastNamed(decls, name) ==
    decls[CHOOSE i \in 1..Len(decls) :
            /\ decls[i].Name = name
            /\ \A j \in (i + 1)..Len(decls) : decls[j].Name # name]

\* the diagnostics of errors that are of the set expected
Among(errors, expected) == {k \in 1..Len(errors) : errors[k] \in expected}

DuplicateErrors(decls, format) ==
    {Error(decls[i], Sprintf(format, <<decls[i].Name>>)) : i \in Repeated(decls)}

\* one `duplicate` diagnostic for each repeated declaration, every name
\* registered
DuplicatesReported(table, decls, format) ==
    /\ DOMAIN table = Names(decls)
    /\ Cardinality(Among(checker.errors, DuplicateErrors(decls, format)))
          = Cardinality(Repeated(decls))
    /\ Cardinality({k \in 1..Len(checker.errors) :
                      \E d \in Names(decls) : checker.errors[k].Message = Sprintf(format, <<d>>)})
          = Cardinality(Repeated(decls))

\* C15 (the part that holds): after one run of Check every declared name
\* is registered, each repeated declaration has one `duplicate` diagnostic
\* at its position, and the entry of a name is its last declaration.
C15_DuplicatesReportedLastWins ==
    MethodRuns = 1 =>
        /\ DuplicatesReported(checker.enums, file.Enums, MsgDuplicateEnum)
        /\ DuplicatesReported(checker.entities, file.Entities, MsgDuplicateEntity)
        /\ DuplicatesReported(checker.services, file.Services, MsgDuplicateService)
        /\ \A n \in DOMAIN checker.enums : checker.enums[n] = LastNamed(file.Enums, n)
        /\ \A n \in DOMAIN checker.entities : checker.entities[n] = LastNamed(file.Entities, n)
        /\ \A n \in DOMAIN checker.services : checker.services[n] = LastNamed(file.Services, n)

\* C15: when several enums, entities or services share a name, the
\* symbol-table entry of that name refers to the first declaration.
C15_FirstDeclarationWins ==
    MethodRuns = 1 =>
        /\ \A n \in DOMAIN checker.enums : checker.enums[n] = FirstNamed(file.Enums, n)
        /\ \A n \in DOMAIN checker.entities : checker.entities[n] = FirstNamed(file.Entities, n)
        /\ \A n \in DOMAIN checker.services : checker.services[n] = FirstNamed(file.Services, n)

\* the identifier nodes and the call nodes of an expression
RECURSIVE IdentsOf(_)
IdentsOf(e) ==
    CASE e.kind = "BinaryExpr" -> IdentsOf(e.Left) \cup IdentsOf(e.Right)
      [] e.kind \in {"UnaryExpr", "IsNullExpr"} -> IdentsOf(e.Operand)
      [] e.kind = "IdentExpr" -> {e}
      [] e.kind = "CallExpr" -> UNION {IdentsOf(e.Args[i]) : i \in 1..Len(e.Args)}
      [] e.kind = "ParenExpr" -> IdentsOf(e.Inner)
      [] OTHER -> {}

RECURSIVE CallsOf(_)
CallsOf(e) ==
    CASE e.kind = "BinaryExpr" -> CallsOf(e.Left) \cup CallsOf(e.Right)
      [] e.kind \in {"UnaryExpr", "IsNullExpr"} -> CallsOf(e.Operand)
      [] e.kind = "CallExpr" -> {e} \cup UNION {CallsOf(e.Args[i]) : i \in 1..Len(e.Args)}
      [] e.kind = "ParenExpr" -> CallsOf(e.Inner)
      [] OTHER -> {}

\* the WHERE and LIMIT expressions of a query
QueryExprs(q) == {q.Where[i] : i \in 1..Len(q.Where)} \cup {q.Limit[i] : i \in 1..Len(q.Limit)}

QueryIdentNodes(q) == UNION {IdentsOf(e) : e \in QueryExprs(q)}

QueryCallNodes(q) == UNION {CallsOf(e) : e \in QueryExprs(q)}

OrderByNodes(q) == {q.OrderBy[i] : i \in 1..Len(q.OrderBy)}

\* the scope of a query: the fields of its entity and its own parameters
Scope(entity, q) == Names(entity.Fields) \cup Names(q.Params)

\* the queries of the file, each with its entity
FileQueries ==
    UNION {{[entity |-> file.Entities[i], q |-> file.Entities[i].Queries[j]]
              : j \in 1..Len(file.Entities[i].Queries)}
            : i \in 1..Len(file.Entities)}

\* the calls of Check that returned, made on a Checker that had not run
Returned == {i \in Fresh : ~checked[i].panicked}

ErrorsOf(i) == {checked[i].errors[k] : k \in 1..Len(checked[i].errors)}

UnknownIdentifier(node, name) == Error(node, Sprintf(MsgUnknownIdentifier, <<name>>))

\* C16 (the part that holds): the scope of a query is the fields of its
\* entity and its own parameters; an identifier of WHERE or LIMIT outside
\* it that is not spelled like a builtin function is reported as unknown
\* identifier, an ORDER BY field outside it as unknown field in ORDER BY,
\* and a name in scope is not reported.
C16_ScopeIsFieldsAndOwnParameters ==
    \A i \in Returned : \A x \in FileQueries :
        /\ \A n \in QueryIdentNodes(x.q) :
              UnknownIdentifier(n, n.Name) \in ErrorsOf(i)
                  <=> (n.Name \notin Scope(x.entity, x.q) /\ n.Name \notin KnownFunctions)
        /\ \A o \in OrderByNodes(x.q) :
              /\ Error(o, Sprintf(MsgUnknownOrderByField, <<o.Field>>)) \in ErrorsOf(i)
                    <=> o.Field \notin Scope(x.entity, x.q)
              /\ UnknownIdentifier(o, o.Field) \notin ErrorsOf(i)

\* C16: each identifier of the WHERE or LIMIT expression and each ORDER BY
\* field name of a query that is neither a field of the entity nor a
\* parameter of this query yields `unknown identifier: <name>`, and a name
\* in this scope yields none.
C16_UnknownIdentifiersReported ==
    \A i \in Returned : \A x \in FileQueries :
        /\ \A n \in QueryIdentNodes(x.q) :
              UnknownIdentifier(n, n.Name) \in ErrorsOf(i) <=> n.Name \notin Scope(x.entity, x.q)
        /\ \A o \in OrderByNodes(x.q) :
              UnknownIdentifier(o, o.Field) \in ErrorsOf(i) <=> o.Field \notin Scope(x.entity, x.q)

\* the diagnostics at the position of a node
ErrorsAtNode(i, node) == {e \in ErrorsOf(i) : e.Position = node.Position}

\* C17 (the part that holds): a call of a builtin function is not
\* reported; nor is any other call, nor a bare identifier spelled like a
\* builtin function.
C17_BuiltinNamesNeverReported ==
    \A i \in Returned : \A x \in FileQueries :
        /\ \A c \in QueryCallNodes(x.q) : ErrorsAtNode(i, c) = {}
        /\ \A n \in QueryIdentNodes(x.q) : n.Name \in KnownFunctions => ErrorsAtNode(i, n) = {}

\* C17: the allow-list exempts a name only as the target of a call: a bare
\* identifier spelled like a builtin and not in scope is reported as
\* unknown, and a call of a function outside the allow-list is reported as
\* unknown.
C17_BuiltinsOnlyAsCallTargets ==
    \A i \in Returned : \A x \in FileQueries :
        /\ \A c \in QueryCallNodes(x.q) :
              (c.Name \in KnownFunctions) <=> ErrorsAtNode(i, c) = {}
        /\ \A n \in QueryIdentNodes(x.q) :
              (n.Name \in KnownFunctions /\ n.Name \notin Scope(x.entity, x.q))
                  => UnknownIdentifier(n, n.Name) \in ErrorsOf(i)

\* how many times a call of Check returned the diagnostic
Count(i, err) ==
    Cardinality({k \in 1..Len(checked[i].errors) : checked[i].errors[k] = err})

DuplicateField(field) == Error(field, Sprintf(MsgDuplicateField, <<field.Name>>))

\* the entities of the checked file are the entities declared, every
\* field included
FieldsKept ==
    /\ checker.file = file
    /\ source.family = "fields"
          => /\ Len(file.Entities) = Len(source.entities)
             /\ \A e \in 1..Len(source.entities) :
                   EntityShapeOf(file.Entities[e]) = source.entities[e]

\* the duplicate field diagnostics of the call i are as claimed
DuplicateFieldsReported(i) ==
    \A e \in 1..Len(file.Entities) : \A j \in 1..Len(file.Entities[e].Fields) :
        Count(i, DuplicateField(file.Entities[e].Fields[j]))
            = IF j \in Repeated(file.Entities[e].Fields) THEN 1 ELSE 0

\* C18 (the part that holds): where Check returns, on a Checker that had
\* not run, each field after the first of its name has one `duplicate
\* field` diagnostic at its position, the first has none, and the field
\* list is as declared.
C18_ReturnedDuplicateFieldDiagnostics ==
    FieldsKept /\ \A i \in Returned : DuplicateFieldsReported(i)

\* C18: when k fields of one entity have the same name, Check reports
\* exactly k-1 `duplicate field` diagnostics, each at a later occurrence,
\* and the field list keeps all declared fields.
C18_DuplicateFieldDiagnostics ==
    FieldsKept /\ \A i \in 1..Len(checked) : DuplicateFieldsReported(i)

\* the field has a type and the type is optional
OptionalType(field) == field.Type # <<>> /\ field.Type[1].Optional

PrimaryKeyOptionalReported(i) ==
    \A e \in 1..Len(file.Entities) : \A j \in 1..Len(file.Entities[e].Fields) :
        Count(i, Error(file.Entities[e].Fields[j], MsgPrimaryKeyOptional))
            = IF IsPrimaryKey(file.Entities[e].Fields[j])
                 /\ OptionalType(file.Entities[e].Fields[j])
              THEN 1 ELSE 0

\* C19 (the part that holds): where Check returns, on a Checker that had
\* not run, a field has one `primary key cannot be optional` diagnostic if
\* it is a primary key of optional type, and none otherwise.
C19_ReturnedPrimaryKeyOptional == \A i \in Returned : PrimaryKeyOptionalReported(i)

\* C19: every field that carries the primary-key annotation and has an
\* optional type yields exactly one `primary key cannot be optional`
\* diagnostic, and a field that is not both yields none.
C19_PrimaryKeyOptionalDiagnostics == \A i \in 1..Len(checked) : PrimaryKeyOptionalReported(i)

\* the primary-key fields of an entity, and those after the first
PrimaryKeys(entity) == {j \in 1..Len(entity.Fields) : IsPrimaryKey(entity.Fields[j])}

LaterPrimaryKeys(entity) ==
    {j \in PrimaryKeys(entity) : \E k \in PrimaryKeys(entity) : k < j}

PrimaryKeyCountReported(i) ==
    \A e \in 1..Len(file.Entities) :
        /\ \A j \in 1..Len(file.Entities[e].Fields) :
              Count(i, Error(file.Entities[e].Fields[j],
                             Sprintf(MsgMultiplePrimaryKeys, <<file.Entities[e].Name>>)))
                  = IF j \in LaterPrimaryKeys(file.Entities[e]) THEN 1 ELSE 0
        /\ Count(i, Error(file.Entities[e],
                          Sprintf(MsgNoPrimaryKey, <<file.Entities[e].Name>>)))
              = IF PrimaryKeys(file.Entities[e]) = {} /\ Len(file.Entities[e].Fields) > 0
                THEN 1 ELSE 0

\* C20 (the part that holds): where Check returns, on a Checker that had
\* not run, an entity with p primary-key fields has one `multiple primary
\* keys` diagnostic at each of them after the first, and one `no primary
\* key` diagnostic if p = 0 and it has a field.
C20_ReturnedPrimaryKeyCount == \A i \in Returned : PrimaryKeyCountReported(i)

\* C20: with p >= 2 primary-key fields Check reports p-1 `multiple primary
\* keys` diagnostics, one at each primary-key field after the first; with
\* p = 1 none; with p = 0 and at least one field exactly one `no primary
\* key` diagnostic; an entity without fields gets none.
C20_PrimaryKeyCountDiagnostics == \A i \in 1..Len(checked) : PrimaryKeyCountReported(i)

\* the type references of the fields and the query parameters of the file
EntityTypeRefs(entity) ==
    {entity.Fields[j].Type[1] : j \in {j \in 1..Len(entity.Fields) : entity.Fields[j].Type # <<>>}}
    \cup UNION {{entity.Queries[j].Params[k].Type[1]
                    : k \in {k \in 1..Len(entity.Queries[j].Params) :
                                entity.Queries[j].Params[k].Type # <<>>}}
                  : j \in 1..Len(entity.Queries)}

TypeRefs == UNION {EntityTypeRefs(file.Entities[e]) : e \in 1..Len(file.Entities)}

\* the names of the 8 built-in scalars
ScalarNames == {Chars(w) : w \in ScalarWords}

\* the names that a type reference may resolve to
Resolvable == ScalarNames \cup Names(file.Enums) \cup Names(file.Entities)

UnknownTypesReported(i) ==
    \A t \in TypeRefs :
        Error(t, Sprintf(MsgUnknownType, <<t.Name>>)) \in ErrorsOf(i) <=> t.Name \notin Resolvable

\* C21 (the part that holds): where Check returns, a type reference has an
\* `unknown type` diagnostic exactly when its name is none of the 8
\* built-in scalars, no enum and no entity of the file, wherever in the
\* file the enum or the entity is declared.
C21_ReturnedUnknownTypes ==
    \A i \in 1..Len(checked) : ~checked[i].panicked => UnknownTypesReported(i)

\* C21: a field type or a query-parameter type yields an `unknown type`
\* diagnostic exactly when its name is none of the 8 built-in scalars, no
\* enum declared in the file and no entity declared in the file.
C21_UnknownTypeDiagnostics == \A i \in 1..Len(checked) : UnknownTypesReported(i)

\* the @fk annotations of the fields of the file
EntityFkAnnotations(entity) ==
    UNION {{entity.Fields[j].Annotations[k]
              : k \in {k \in 1..Len(entity.Fields[j].Annotations) :
                          entity.Fields[j].Annotations[k].Name = Chars("fk")}}
            : j \in 1..Len(entity.Fields)}

FkAnnotations == UNION {EntityFkAnnotations(file.Entities[e]) : e \in 1..Len(file.Entities)}

\* the offsets of the dots of a text
Dots(text) == {k \in 1..Len(text) : text[k] = "."}

\* the text before the dot at k
Before(text, k) == SubSeq(text, 1, k - 1)

\* the first argument is a string of the shape Entity.field whose Entity
\* part names an entity of the file
FkResolves(ann) ==
    /\ Len(ann.Args) > 0
    /\ ann.Args[1].Value.vtype = "string"
    /\ Cardinality(Dots(ann.Args[1].Value.str)) = 1
    /\ \E k \in Dots(ann.Args[1].Value.str) :
          Before(ann.Args[1].Value.str, k) \in Names(file.Entities)

\* C22 (the part that holds): where Check returns, an @fk annotation whose
\* first argument is a string has a diagnostic exactly when the string
\* has not exactly one dot or the part before the dot names no entity of
\* the file; an @fk annotation without argument has a diagnostic; one
\* whose first argument is not a string has none.
C22_FkStringsResolved ==
    \A i \in Returned : \A ann \in FkAnnotations :
        ErrorsAtNode(i, ann) # {}
            <=> (~FkResolves(ann) /\ (Len(ann.Args) > 0 => ann.Args[1].Value.vtype = "string"))

\* C22: every @fk annotation yields a diagnostic unless its first argument
\* is a string of the shape Entity.field whose Entity part names an entity
\* declared in the file.
C22_FkDiagnostics ==
    \A i \in Returned : \A ann \in FkAnnotations : ~FkResolves(ann) => ErrorsAtNode(i, ann) # {}

\* the documented form of the annotation has been parsed
DocumentedFk == source.family = "fk" /\ source.name = "documented"

\* C23 (what the parser does): of `@fk(Entity.field)` the parser reports
\* the dot, and no field of the entity carries an fk annotation.
C23_DocumentedFkStopsAtDot ==
    DocumentedFk =>
        /\ FkAnnotations = {}
        /\ Len(parser.errors) > 0
        /\ parser.errors[1].got = "DOT"

\* C23: a field annotated `@fk(Entity.field)` parses without any
\* diagnostic and yields a field carrying an fk annotation whose argument
\* is the reference Entity.field.
C23_DocumentedFkParsed ==
    DocumentedFk =>
        /\ parser.errors = <<>>
        /\ \E e \in 1..Len(file.Entities) : \E j \in 1..Len(file.Entities[e].Fields) :
              \E k \in 1..Len(file.Entities[e].Fields[j].Annotations) :
                  /\ file.Entities[e].Fields[j].Annotations[k].Name = Chars("fk")
                  /\ Len(file.Entities[e].Fields[j].Annotations[k].Args) = 1
                  /\ file.Entities[e].Fields[j].Annotations[k].Args[1].Value
                        = StringValue(<<"E", ".", "a">>)

\* the value of a text of decimal digits
RECURSIVE Decimal(_)
Decimal(text) ==
    IF text = <<>> THEN 0 ELSE Decimal(SubSeq(text, 1, Len(text) - 1)) * 10 + DigitValue(text[Len(text)])

\* text is `<line>:<column>: <message>`: decimal digits, a colon, decimal
\* digits, a colon and a space, the message
HasForm(text, line, column, message) ==
    \E i \in 1..Len(text) : \E j \in (i + 2)..Len(text) :
        /\ \A k \in 1..i : text[k] \in Digits
        /\ Decimal(SubSeq(text, 1, i)) = line
        /\ text[i + 1] = ":"
        /\ \A k \in (i + 2)..j : text[k] \in Digits
        /\ Decimal(SubSeq(text, i + 2, j)) = column
        /\ SubSeq(text, j + 1, Len(text)) = <<":", " ">> \o message

\* the diagnostics of the checker that were rendered: no call of Check
\* follows the rendering
RenderedChecked == LastChecked

\* C24 (the part that holds): a diagnostic of the checker renders as
\* `<line>:<column>: <message>`; a diagnostic of the parser renders as
\* that text after the word `line` and a space.
C24_CheckerDiagnosticsRendered ==
    rendered # <<>> =>
        /\ Len(rendered[1].checker) = Len(RenderedChecked)
        /\ Len(rendered[1].parser) = Len(parser.errors)
        /\ \A k \in 1..Len(rendered[1].checker) :
              HasForm(rendered[1].checker[k], RenderedChecked[k].Position.Line,
                      RenderedChecked[k].Position.Column, RenderedChecked[k].Message)
        /\ \A k \in 1..Len(rendered[1].parser) :
              /\ SubSeq(rendered[1].parser[k], 1, 5) = <<"l", "i", "n", "e", " ">>
              /\ HasForm(SubSeq(rendered[1].parser[k], 6, Len(rendered[1].parser[k])),
                         parser.errors[k].Line, parser.errors[k].Column,
                         ExpectedGot(parser.errors[k]))

\* C24: every diagnostic of a compilation, of the parser or of the
\* checker, renders as `<line>:<column>: <message>` with the line and the
\* column as decimal numbers and nothing before the line number.
C24_DiagnosticsRendered ==
    rendered # <<>> =>
        /\ \A k \in 1..Len(rendered[1].checker) :
              HasForm(rendered[1].checker[k], RenderedChecked[k].Position.Line,
                      RenderedChecked[k].Position.Column, RenderedChecked[k].Message)
        /\ \A k \in 1..Len(rendered[1].parser) :
              HasForm(rendered[1].parser[k], parser.errors[k].Line, parser.errors[k].Column,
                      ExpectedGot(parser.errors[k]))

MaxThreads == 2       \* runtime: threads that call the runtime
MaxPoolSize == 1      \* runtime: poolSize given to the Builder
MaxRuntimeCalls == 3  \* runtime: calls of public methods in a behaviour
MaxConnections == 3   \* runtime: connections that createConnection opens

Threads == 1..MaxThreads

\* Certificate: the fields that isValid reads
CertificateOf(signatureValid, expired, issuer, principles) ==
    [signatureValid |-> signatureValid, expired |-> expired, issuer |-> issuer,
     principles |-> principles]

PrincipleNames ==
    {"data_sovereignty", "no_surveillance", "export_delete", "interoperability",
     "no_extraction"}

AllAgreed == [n \in PrincipleNames |-> TRUE]

NoSovereignty == [n \in PrincipleNames |-> n # "data_sovereignty"]

\* Certificate.isValid
isValid(cert) ==
    IF ~cert.signatureValid THEN FALSE
    ELSE IF cert.expired THEN FALSE
    ELSE IF cert.issuer \notin {"dataproto.aurora.dev", "development"} THEN FALSE
    ELSE \A n \in PrincipleNames : cert.principles[n]

\* the certificates given to the Builder; <<>> is null
Certificates ==
    {<<>>,
     <<CertificateOf(TRUE, FALSE, "dataproto.aurora.dev", AllAgreed)>>,
     <<CertificateOf(TRUE, FALSE, "development", AllAgreed)>>,
     <<CertificateOf(FALSE, FALSE, "dataproto.aurora.dev", AllAgreed)>>,
     <<CertificateOf(TRUE, TRUE, "dataproto.aurora.dev", AllAgreed)>>,
     <<CertificateOf(TRUE, FALSE, "example.org", AllAgreed)>>,
     <<CertificateOf(TRUE, FALSE, "dataproto.aurora.dev", NoSovereignty)>>}

\* DataProtoRuntime.validateCertificate
validateCertificate(certificate) ==
    IF certificate = <<>> THEN FALSE ELSE isValid(certificate[1])

\* the constructor: the fields after initializePool has offered poolSize
\* new connections, 1..poolSize
DataProtoRuntime(certificate, enforceCertification, poolSize) ==
    [certificate |-> certificate,
     enforceCertification |-> enforceCertification,
     certified |-> IF enforceCertification THEN validateCertificate(certificate) ELSE TRUE,
     poolSize |-> poolSize,
     connectionPool |-> [i \in 1..poolSize |-> i],
     closed |-> FALSE]

\* a thread that is in no call; held are the connections that getConnection
\* returned to it and that it has not released
IdleThread(held) ==
    [op |-> "idle", pc |-> "idle", conn |-> 0, held |-> held, afterClose |-> FALSE,
     took |-> FALSE, ran |-> FALSE, failed |-> FALSE]

\* close has returned
CloseReturned == \E i \in 1..Len(returned) : returned[i].op = "close"

\* the settings of the Builder: every certificate with enforcement on, no
\* certificate and an unsigned one with enforcement off
Builders ==
    {[certificate |-> c, enforceCertification |-> TRUE] : c \in Certificates}
    \cup {[certificate |-> c, enforceCertification |-> FALSE] :
            c \in {<<>>, <<CertificateOf(FALSE, FALSE, "dataproto.aurora.dev", AllAgreed)>>}}

InitRuntime ==
    /\ \E builder \in Builders : \E poolSize \in 0..MaxPoolSize :
          /\ runtime = DataProtoRuntime(builder.certificate, builder.enforceCertification,
                                        poolSize)
          /\ connections = [i \in 1..poolSize |-> FALSE]
    /\ threads = [t \in Threads |-> IdleThread({})]
    /\ returned = <<>>
    /\ CodegenIdle
    /\ LexerIdle
    /\ ParserIdle
    /\ TokenizeIdle
    /\ CheckerIdle

Active == {t \in Threads : threads[t].op # "idle"}

\* thread t calls the public method op with the argument conn
Call(t, op, pc, conn) ==
    /\ threads[t].op = "idle"
    /\ Len(returned) + Cardinality(Active) < MaxRuntimeCalls
    /\ threads' = [threads EXCEPT ![t] =
                      [op |-> op, pc |-> pc, conn |-> conn, held |-> threads[t].held \ {conn},
                       afterClose |-> CloseReturned, took |-> FALSE, ran |-> FALSE,
                       failed |-> FALSE]]
    /\ UNCHANGED <<runtime, connections, returned, cgVars, lexVars, parseVars, tokVars, checkVars>>

\* the call of thread t returns, or throws the exception named by outcome
Finish(t, outcome, held) ==
    /\ threads' = [threads EXCEPT ![t] = IdleThread(held)]
    /\ returned' = Append(returned,
                          [thread |-> t, op |-> threads[t].op, outcome |-> outcome,
                           conn |-> threads[t].conn, afterClose |-> threads[t].afterClose,
                           took |-> threads[t].took, ran |-> threads[t].ran])

Goto(t, pc) == threads' = [threads EXCEPT ![t].pc = pc]

At(t, ops, pc) == threads[t].op \in ops /\ threads[t].pc = pc

Others == <<cgVars, lexVars, parseVars, tokVars, checkVars>>

CallRequireCertified(t) == Call(t, "requireCertified", "requireCertified", 0)

CallGetConnection(t) == Call(t, "getConnection", "checkClosed", 0)

CallReleaseConnection(t) ==
    \E conn \in threads[t].held \cup {0} : Call(t, "releaseConnection", "releaseCheck", conn)

CallExecuteUpdate(t) == Call(t, "executeUpdate", "requireCertified", 0)

CallQuery(t) == Call(t, "query", "requireCertified", 0)

CallClose(t) == Call(t, "close", "setClosed", 0)

\* requireCertified: if (!certified) throw new CertificationException(...)
requireCertified(t) ==
    /\ At(t, {"requireCertified", "executeUpdate", "query"}, "requireCertified")
    /\ IF ~runtime.certified
       THEN Finish(t, "CertificationException", threads[t].held)
       ELSE IF threads[t].op = "requireCertified"
       THEN Finish(t, "returned", threads[t].held)
       ELSE Goto(t, "checkClosed") /\ UNCHANGED returned
    /\ UNCHANGED <<runtime, connections, Others>>

\* getConnection: if (closed) throw new IllegalStateException(...)
getConnectionClosed(t) ==
    /\ At(t, {"getConnection", "executeUpdate", "query"}, "checkClosed")
    /\ IF runtime.closed
       THEN Finish(t, "IllegalStateException", threads[t].held)
       ELSE Goto(t, "poll") /\ UNCHANGED returned
    /\ UNCHANGED <<runtime, connections, Others>>

\* getConnection: Connection conn = connectionPool.poll()
getConnectionPoll(t) ==
    /\ At(t, {"getConnection", "executeUpdate", "query"}, "poll")
    /\ IF runtime.connectionPool = <<>>
       THEN /\ threads' = [threads EXCEPT ![t].conn = 0, ![t].pc = "isClosed"]
            /\ UNCHANGED runtime
       ELSE /\ threads' = [threads EXCEPT ![t].conn = Head(runtime.connectionPool),
                                          ![t].pc = "isClosed"]
            /\ runtime' = [runtime EXCEPT !.connectionPool = Tail(runtime.connectionPool)]
    /\ UNCHANGED <<connections, returned, Others>>

\* the connection is given to the caller: getConnection returns it, or
\* executeUpdate and query go on to their statement
given(t, conn) ==
    IF threads[t].op = "getConnection"
    THEN /\ threads' = [threads EXCEPT ![t] = IdleThread(threads[t].held \cup {conn})]
         /\ returned' = Append(returned,
                               [thread |-> t, op |-> "getConnection", outcome |-> "returned",
                                conn |-> conn, afterClose |-> threads[t].afterClose,
                                took |-> TRUE, ran |-> FALSE])
    ELSE /\ threads' = [threads EXCEPT ![t].conn = conn, ![t].took = TRUE,
                                       ![t].pc = "execute"]
         /\ UNCHANGED returned

\* getConnection: if (conn == null || conn.isClosed()) conn = createConnection();
\* return conn
getConnectionReturn(t) ==
    /\ At(t, {"getConnection", "executeUpdate", "query"}, "isClosed")
    /\ IF threads[t].conn = 0 \/ connections[threads[t].conn]
       THEN /\ Len(connections) < MaxConnections
            /\ connections' = Append(connections, FALSE)
            /\ given(t, Len(connections) + 1)
       ELSE /\ UNCHANGED connections
            /\ given(t, threads[t].conn)
    /\ UNCHANGED <<runtime, Others>>

\* executeUpdate, query: conn.prepareStatement(sql), bindParameters and the
\* execution of the statement.  On a closed connection they throw
\* SQLException; on an open one the database accepts the statement or not.
execute(t) ==
    /\ At(t, {"executeUpdate", "query"}, "execute")
    /\ \E accepted \in BOOLEAN :
          IF connections[threads[t].conn] \/ ~accepted
          THEN threads' = [threads EXCEPT ![t].failed = TRUE, ![t].pc = "closeResources"]
          ELSE threads' = [threads EXCEPT ![t].ran = TRUE, ![t].pc = "releaseCheck"]
    /\ UNCHANGED <<runtime, connections, returned, Others>>

\* releaseConnection has returned: the call of releaseConnection is over;
\* executeUpdate and query leave their try block
released(t) ==
    IF threads[t].op = "releaseConnection"
    THEN Finish(t, "returned", threads[t].held)
    ELSE Goto(t, "closeResources") /\ UNCHANGED returned

\* releaseConnection: if (conn != null && !closed)
releaseConnectionCheck(t) ==
    /\ At(t, {"releaseConnection", "executeUpdate", "query"}, "releaseCheck")
    /\ IF threads[t].conn # 0 /\ ~runtime.closed
       THEN Goto(t, "releaseIsClosed") /\ UNCHANGED returned
       ELSE released(t)
    /\ UNCHANGED <<runtime, connections, Others>>

\* releaseConnection: !conn.isClosed() &&
releaseConnectionIsClosed(t) ==
    /\ At(t, {"releaseConnection", "executeUpdate", "query"}, "releaseIsClosed")
    /\ IF connections[threads[t].conn] THEN Goto(t, "releaseClose") ELSE Goto(t, "releaseSize")
    /\ UNCHANGED <<runtime, connections, returned, Others>>

\* releaseConnection: connectionPool.size() < poolSize
releaseConnectionSize(t) ==
    /\ At(t, {"releaseConnection", "executeUpdate", "query"}, "releaseSize")
    /\ IF Len(runtime.connectionPool) < runtime.poolSize
       THEN Goto(t, "releaseOffer")
       ELSE Goto(t, "releaseClose")
    /\ UNCHANGED <<runtime, connections, returned, Others>>

\* releaseConnection: connectionPool.offer(conn)
releaseConnectionOffer(t) ==
    /\ At(t, {"releaseConnection", "executeUpdate", "query"}, "releaseOffer")
    /\ runtime' = [runtime EXCEPT !.connectionPool = Append(runtime.connectionPool, threads[t].conn)]
    /\ released(t)
    /\ UNCHANGED <<connections, Others>>

\* releaseConnection: conn.close()
releaseConnectionClose(t) ==
    /\ At(t, {"releaseConnection", "executeUpdate", "query"}, "releaseClose")
    /\ connections' = [connections EXCEPT ![threads[t].conn] = TRUE]
    /\ released(t)
    /\ UNCHANGED <<runtime, Others>>

\* executeUpdate, query: the end of try (Connection conn = getConnection();
\* PreparedStatement stmt = ...): the resources are closed, conn.close()
\* included, then the result is returned, or SQLException is caught and
\* DataProtoException thrown
closeResources(t) ==
    /\ At(t, {"executeUpdate", "query"}, "closeResources")
    /\ connections' = [connections EXCEPT ![threads[t].conn] = TRUE]
    /\ Finish(t, IF threads[t].failed THEN "DataProtoException" ELSE "returned",
              threads[t].held)
    /\ UNCHANGED <<runtime, Others>>

\* close: closed = true
closeSetClosed(t) ==
    /\ At(t, {"close"}, "setClosed")
    /\ runtime' = [runtime EXCEPT !.closed = TRUE]
    /\ Goto(t, "drain")
    /\ UNCHANGED <<connections, returned, Others>>

\* close: while ((conn = connectionPool.poll()) != null)
closePoll(t) ==
    /\ At(t, {"close"}, "drain")
    /\ IF runtime.connectionPool = <<>>
       THEN /\ Finish(t, "returned", threads[t].held)
            /\ UNCHANGED runtime
       ELSE /\ threads' = [threads EXCEPT ![t].conn = Head(runtime.connectionPool),
                                          ![t].pc = "drainClose"]
            /\ runtime' = [runtime EXCEPT !.connectionPool = Tail(runtime.connectionPool)]
            /\ UNCHANGED returned
    /\ UNCHANGED <<connections, Others>>

\* close: conn.close() in the loop
closeConn(t) ==
    /\ At(t, {"close"}, "drainClose")
    /\ connections' = [connections EXCEPT ![threads[t].conn] = TRUE]
    /\ Goto(t, "drain")
    /\ UNCHANGED <<runtime, returned, Others>>

NextRuntime ==
    \E t \in Threads :
        \/ CallRequireCertified(t)
        \/ CallGetConnection(t)
        \/ CallReleaseConnection(t)
        \/ CallExecuteUpdate(t)
        \/ CallQuery(t)
        \/ CallClose(t)
        \/ requireCertified(t)
        \/ getConnectionClosed(t)
        \/ getConnectionPoll(t)
        \/ getConnectionReturn(t)
        \/ execute(t)
        \/ releaseConnectionCheck(t)
        \/ releaseConnectionIsClosed(t)
        \/ releaseConnectionSize(t)
        \/ releaseConnectionOffer(t)
        \/ releaseConnectionClose(t)
        \/ closeResources(t)
        \/ closeSetClosed(t)
        \/ closePoll(t)
        \/ closeConn(t)

SpecRuntime == InitRuntime /\ [][NextRuntime]_vars

(***************************************************************************)
(* Claims about the Java runtime.                                          *)
(***************************************************************************)
\* the runtime was built with enforcement on and a missing or invalid
\* certificate
Uncertified ==
    runtime.enforceCertification /\ ~validateCertificate(runtime.certificate)

Guarded == {"requireCertified", "executeUpdate", "query"}

\* the guarded operations of an uncertified runtime throw
\* CertificationException before a connection is taken or SQL runs
GuardedRefuse ==
    Uncertified =>
        \A i \in 1..Len(returned) :
            returned[i].op \in Guarded =>
                /\ returned[i].outcome = "CertificationException"
                /\ ~returned[i].took
                /\ ~returned[i].ran

\* no call throws CertificationException
NeverCertificationException ==
    \A i \in 1..Len(returned) : returned[i].outcome # "CertificationException"

\* C26 (the part that holds): on a runtime with enforcement on and a
\* missing or invalid certificate, requireCertified, executeUpdate and
\* query throw CertificationException before any connection is taken or
\* any SQL runs; a runtime with enforcement off or a valid certificate
\* never throws CertificationException.
C26_GuardedOperationsRefuse ==
    /\ GuardedRefuse
    /\ ~Uncertified => NeverCertificationException

\* C26: in addition, no public operation of such a runtime, getConnection
\* included, hands out a database connection.
C26_UncertifiedRefusesToOperate ==
    /\ GuardedRefuse
    /\ Uncertified =>
          /\ \A i \in 1..Len(returned) : ~returned[i].took
          /\ \A t \in Threads : threads[t].held = {} /\ ~threads[t].took
    /\ ~Uncertified => NeverCertificationException

\* the calls of op that began after close had returned
AfterClose(op) ==
    {i \in 1..Len(returned) : returned[i].op = op /\ returned[i].afterClose}

\* getConnection, begun after close has returned, throws IllegalStateException
GetConnectionRefused ==
    \A i \in AfterClose("getConnection") : returned[i].outcome = "IllegalStateException"

\* the connections that a thread still has: those it holds and the one
\* of the call it is in
InUse == UNION {threads[t].held \cup {threads[t].conn} : t \in Threads}

\* C27 (the part that holds): once close has returned the runtime is closed
\* for good, and getConnection, executeUpdate and query begun after that
\* take no connection: getConnection throws IllegalStateException.
C27_ClosedRuntimeRefusesNewCalls ==
    CloseReturned =>
        /\ runtime.closed
        /\ GetConnectionRefused
        /\ \A op \in {"getConnection", "executeUpdate", "query"} :
              \A i \in AfterClose(op) : ~returned[i].took

\* the pool is empty once close has returned
PoolEmptyAfterClose == CloseReturned => runtime.connectionPool = <<>>

\* once close has returned, a connection of the runtime is closed unless a
\* thread still has it
ReleasedAreClosed ==
    CloseReturned =>
        \A c \in 1..Len(connections) : connections[c] \/ c \in InUse

\* C27: after close has returned, getConnection throws
\* IllegalStateException, the pool is empty and stays empty, and every
\* connection that the runtime created is closed or becomes closed when it
\* is released, under every interleaving of close with getConnection and
\* releaseConnection.
C27_CloseClosesEverything ==
    /\ CloseReturned => GetConnectionRefused
    /\ PoolEmptyAfterClose
    /\ ReleasedAreClosed

\* every connection in the pool is open
PooledAreOpen ==
    \A k \in 1..Len(runtime.connectionPool) : ~connections[runtime.connectionPool[k]]

\* the pool holds at most poolSize connections
PoolBounded == Len(runtime.connectionPool) <= runtime.poolSize

\* the calls of executeUpdate and query that took a connection and are over
Completed ==
    {i \in 1..Len(returned) : returned[i].op \in {"executeUpdate", "query"} /\ returned[i].took}

\* C30 (what holds instead): the connection of a call of executeUpdate or
\* query is closed when the call is over, whether it returned or threw, in
\* the pool or not; and the pool exceeds poolSize by less than the number
\* of threads.
C30_CompletedCallsCloseTheirConnection ==
    /\ \A i \in Completed : connections[returned[i].conn]
    /\ Len(runtime.connectionPool) < runtime.poolSize + MaxThreads

\* C30: every connection held in the pool is open and the pool never holds
\* more than poolSize connections, so that the connection that
\* executeUpdate or query returned to the pool is reused by a later
\* getConnection, under every interleaving of executeUpdate, query and
\* releaseConnection.
C30_PoolHoldsOpenConnections ==
    /\ PooledAreOpen
    /\ PoolBounded

(***************************************************************************)
(* Claims about the termination of the parser.                             *)
(***************************************************************************)
\* the tokens that the parser has not consumed: the calls of NextToken
\* left before the end of the input, and the current token unless it is
\* the end-of-input token of the end of the text
Remaining(p) ==
    (Len(p.tokens) - p.next) + (IF p.curToken = p.tokens[Len(p.tokens)] THEN 0 ELSE 1)

\* the loop of ParseFile is left: the current token is an end-of-input token
ParseFileReturned == curTokenIs(parser, "EOF")

\* an iteration of the loop of ParseFile consumes at least one token
IterationConsumes == parser' # parser => Remaining(parser') < Remaining(parser)

\* C28: ParseFile terminates on every source text, with or without syntax
\* errors: each iteration of its loop, with the loops of the declaration
\* inside it run to their end, consumes at least one of the finitely many
\* tokens that are left, so that after at most that many iterations the
\* loop is left with the end-of-input token current.
C28_ParseFileTerminates == [][IterationConsumes]_vars

\* ParseFile has returned on a schema with a stray word inside the
\* arguments of a call, after a diagnostic, with every token consumed
C28_Witness ==
    /\ ParseFileReturned
    /\ source.family = "stray"
    /\ SubSeq(source.words, 1, 3) = <<"entity", "E", "{">>
    /\ source.words[15] = "#"
    /\ Len(parser.errors) > 0
    /\ Remaining(parser) = 0
    /\ Len(file.Entities) = 1

(***************************************************************************)
(* Claims about the positions of tokens.                                   *)
(***************************************************************************)
\* the offsets of the line feeds among the first n bytes of the input
LineFeeds(n) == {k \in 1..n : lexer.input[k] = "\n"}

\* the offset at which the line of offset n starts
LineStartOf(n) ==
    IF LineFeeds(n) = {} THEN 0 ELSE CHOOSE k \in LineFeeds(n) : \A j \in LineFeeds(n) : j <= k

\* the token of call i carries the line and the column of its first
\* character, which is at offset emitted[i].from
AtFirstCharacter(i) ==
    /\ emitted[i].tok.Line = 1 + Cardinality(LineFeeds(emitted[i].from))
    /\ emitted[i].tok.Column = 1 + emitted[i].from - LineStartOf(emitted[i].from)

\* the bytes that the calls up to call i skipped in front of their tokens:
\* spaces, line feeds and comments
Skipped(i) ==
    UNION {(IF j = 1 THEN 0 ELSE emitted[j - 1].to) + 1 .. emitted[j].from : j \in 1..i}

\* C29 (the part that holds): a token carries the line and the column of
\* its first character when every line feed before the end of the token
\* stands between tokens, in white space or in a comment; two-character
\* operators and strings of one line are among these tokens.
C29_PositionsWhenLineFeedsBetweenTokens ==
    \A i \in 1..Len(emitted) :
        LineFeeds(emitted[i].to) \subseteq Skipped(i) => AtFirstCharacter(i)

\* C29: every token that NextToken returns carries the 1-indexed position
\* of its own first character: the line is 1 plus the number of line feeds
\* before that character, those in comments and in earlier strings
\* included, and the column is 1 plus the offset of the character in its
\* line, for every kind of token.
C29_TokensCarryFirstCharacterPosition ==
    \A i \in 1..Len(emitted) : AtFirstCharacter(i)

====
